---- MODULE Spec2Model ----
(***************************************************************************)
(* A model of ionic-plugin-build: the option derivation, the script and    *)
(* style pipelines, and the build orchestrator of scripts/common.js and    *)
(* scripts/beforePrepare.js.                                               *)
(*                                                                         *)
(* Text is modelled structurally.  A path is a record of its directory,    *)
(* base name, ".min" infix, extension and query suffix.  A piece of code   *)
(* is a record naming its file and the transforms applied to it.  A string *)
(* that the code builds by concatenation is a sequence of items; the empty *)
(* sequence is the empty string (falsy in JavaScript).                     *)
(***************************************************************************)
EXTENDS Integers, Sequences, FiniteSets, TLC

VARIABLES
    raw,          \* context.opts.options: the raw flags of the invocation
    options,      \* common.js `options` after prepareOptions
    preprocessOptions, \* common.js `preprocessOptions`, what prepareOptions returned
    pc,           \* position of the running promise chain
    scripts,      \* argument of processScripts (src values, document order)
    links,        \* argument of processLinks (href values, document order)
    sTask,        \* processScripts: one promise chain per truthy script
    isNoErrors,   \* processScripts: local flag
    allMessages,  \* processScripts: local lint report
    jsData,       \* settlement of processScripts
    lTask,        \* processLinks: one promise chain per link
    cssData,      \* settlement of processLinks
    templates,    \* the *.html templates below src/
    doc,          \* src/index.html
    tPending,     \* prepareTemplates: templates not yet through contentModifier
    tIncluded,    \* prepareTemplates: templates whose content reached the registry
    tNoErrors,    \* prepareTemplates: local flag isNoErrors
    templatesjs,  \* processAngular: templatesjs
    indexData,    \* processAngular: processedResources.indexData
    wPending,     \* processAngular: artifact writes not yet finished
    dirs,         \* the directories tmp and www
    www0,         \* www as the invocation found it
    result,       \* settlement of the promise module.exports returns
    cmdLine,      \* context.cmdLine
    bowerrc,      \* the project's .bowerrc, as common.init finds it
    marker,       \* whether <plugin dir>/is-serving.tmp exists
    marker0,      \* the marker as the invocation found it
    isServing,    \* module.exports: local isServing
    srcVer,       \* the watched files of src: 0 when absent, else the content's version
    edits,        \* changes made to src since the watch loop started
    events,       \* stabilized chokidar events not yet handed to the handler
    copies,       \* copyFile promises started by the watch handler
    watching,     \* whether watch() has registered the termination handlers
    proc,         \* the node process: running, or how it ended
    unlinks,      \* outcomes of the fs.unlinkSync calls of cleanUp
    run,          \* which build of the same project this is
    firstWww,     \* www as the first build left it
    jsText,       \* the text of one script, character by character
    jsOut,        \* that text after the templateUrl replacement
    cpArgs,       \* copyFiles: the arguments files, path, dest and opts
    promises,     \* copyFiles: the copyFile chains it started
    destFs,       \* copyFiles: the directories and files below dest
    allCopied     \* copyFiles: settlement of Promise.all(promises)

copyVars == <<cpArgs, promises, destFs, allCopied>>
hookVars == <<cmdLine, bowerrc, marker, marker0, isServing, srcVer, edits,
              events, copies, watching, proc, unlinks, run, firstWww, jsText, jsOut,
              copyVars>>
envVars == <<raw, options, preprocessOptions, templates, doc, www0, hookVars>>
inVars == <<scripts, links, indexData>>
jsVars == <<sTask, isNoErrors, allMessages, jsData>>
cssVars == <<lTask, cssData>>
tplVars == <<tPending, tIncluded, tNoErrors, templatesjs>>
outVars == <<wPending, dirs, result>>

vars == <<envVars, pc, inVars, jsVars, cssVars, tplVars, outVars>>

----------------------------------------------------------------------------
(* Bounds *)

MaxScripts == 2
MaxLinks == 2
MaxDocScripts == 2
MaxDocLinks == 1

----------------------------------------------------------------------------
(* JavaScript values *)

Undefined == [kind |-> "undefined"]
NL == [kind |-> "nl"]
Pending == [state |-> "pending"]
Resolved(v) == [state |-> "resolved", value |-> v]
Rejected(r) == [state |-> "rejected", reason |-> r]

----------------------------------------------------------------------------
(* Paths and the source tree *)

Path(d, b, m, e, q) == [dir |-> d, base |-> b, min |-> m, ext |-> e, query |-> q]

BowerDir == "bower_components"

JsA == Path("js", "a", FALSE, "js", FALSE)
JsDirty == Path("js", "dirty", FALSE, "js", FALSE)
JsBad == Path("js", "bad", FALSE, "js", FALSE)
JsGone == Path("js", "gone", FALSE, "js", FALSE)
JsDirtyBad == Path("js", "dirtybad", FALSE, "js", FALSE)
JsLibMin == Path("lib", "lib", TRUE, "js", FALSE)
JsVendor == Path(BowerDir, "vendor", FALSE, "js", FALSE)

CssA == Path("css", "a", FALSE, "css", FALSE)
CssGone == Path("css", "gone", FALSE, "css", FALSE)
CssLibMin == Path("lib", "lib", TRUE, "css", FALSE)
CssVendor == Path(BowerDir, "vendor", FALSE, "css", FALSE)
CssBroken == Path("css", "broken", FALSE, "css", FALSE)
CssUnbalanced == Path("css", "unbalanced", FALSE, "css", FALSE)

ScriptFiles == {JsA, JsDirty, JsBad, JsDirtyBad, JsGone, JsLibMin, JsVendor}
LinkFiles == {CssA, CssGone, CssLibMin, CssVendor, CssBroken, CssUnbalanced}

\* fs.readFile succeeds
Exists(p) == p \notin {JsGone, CssGone} /\ ~p.query
\* number of messages eslinter.verify reports on the file
EslintMessages(p) == IF p \in {JsDirty, JsDirtyBad, JsVendor} THEN 2 ELSE 0
\* ngAnnotate reports errors on the file
AnnotateErrors(p) == p \in {JsBad, JsDirtyBad}
\* cssnano rejects the file (syntax error)
CssnanoFails(p) == p = CssBroken
\* preprocess(data.toString(), preprocessOptions) throws on the file (a
\* directive that is opened and never closed)
PreprocessThrows(p) == p = CssUnbalanced

\* /\.min\.js$/gi.test(script)
IsMinJs(p) == p.min /\ p.ext = "js" /\ ~p.query
\* /(\.min\.css$|\.min\.css\?)/gi.test(link)
IsMinCss(p) == p.min /\ p.ext = "css"
\* skipLintRegex = new RegExp(`(${bowerDir}/|node_modules/)`, 'i')
SkipLintRegex(p) == p.dir \in {BowerDir, "node_modules"}

----------------------------------------------------------------------------
(* prepareOptions *)

RawFlagNames == {"p", "prod", "production", "sc", "skip-comp", "nf",
                 "no-fail-lint", "sl", "skip-lint", "ppr", "d", "debug", "ad",
                 "angular-debug"}

NoFlags == [f \in RawFlagNames |-> FALSE]
Flags(S) == [f \in RawFlagNames |-> f \in S]

\* the mutant: the raw flag is taken as it is in both modes
DeriveSkipCompRaw(production, skipComp) == skipComp
\* options.skipComp = options.production ? options.skipComp : !options.skipComp
DeriveSkipComp(production, skipComp) ==
    IF production THEN skipComp ELSE ~skipComp

\* a value is modelled by its truthiness, the only thing the code reads of it
prepareOptions(opts) ==
    LET production == opts["p"] \/ opts["prod"] \/ opts["production"]
        skipComp == opts["sc"] \/ opts["skip-comp"]
    IN [production |-> production,
        debug |-> opts["d"] \/ opts["debug"],
        angularDebug |-> opts["ad"] \/ opts["angular-debug"],
        skipLint |-> opts["sl"] \/ opts["skip-lint"],
        noFailLint |-> opts["nf"] \/ opts["no-fail-lint"],
        skipComp |-> DeriveSkipComp(production, skipComp),
        preprocessResources |-> opts["ppr"],
        env |-> IF production THEN "production" ELSE "development"]

\* the value true
JsTrue == [kind |-> "true"]

\* the mutant: the symbol is defined when its flag is set, whatever the mode
SymbolOfFlag(flag, production) == IF flag THEN JsTrue ELSE Undefined
\* (flag && options.production) || (!flag && !options.production) ? true : undefined
Symbol(flag, production) ==
    IF (flag /\ production) \/ (~flag /\ ~production) THEN JsTrue ELSE Undefined

\* what prepareOptions returns: { context: { NODE_ENV, DEBUG, ANGULAR_DEBUG } }
preprocessContext(opts) ==
    LET o == prepareOptions(opts)
    IN [context |-> [NODE_ENV |-> o.env,
                     DEBUG |-> Symbol(o.debug, o.production),
                     ANGULAR_DEBUG |-> Symbol(o.angularDebug, o.production)]]

----------------------------------------------------------------------------
(* Strings built by concatenation *)

RECURSIVE Join(_)
\* Array.prototype.join('\n'): undefined elements contribute the empty string
Join(arr) ==
    IF Len(arr) = 0 THEN <<>>
    ELSE LET piece == IF Head(arr) = Undefined THEN <<>> ELSE <<Head(arr)>>
         IN IF Len(arr) = 1 THEN piece
            ELSE piece \o <<NL>> \o Join(Tail(arr))

\* the mutant: failed files are dropped before joining
JoinDefined(arr) == Join(SelectSeq(arr, LAMBDA x : x # Undefined))

\* Promise.all(promises).then(data => data.join('\n'))
JoinAll(arr) == Join(arr)

RECURSIVE SeqsUpTo(_, _)
SeqsUpTo(S, n) ==
    IF n = 0 THEN {<<>>}
    ELSE LET shorter == SeqsUpTo(S, n - 1)
         IN shorter \cup {Append(s, x) : s \in shorter, x \in S}

----------------------------------------------------------------------------
(* processScripts *)

\* forEach: `if (script)` skips entries with no src
TruthyScripts(list) == SelectSeq(list, LAMBDA s : s # Undefined)

Code(p, pre) == [file |-> p, pre |-> pre, tpl |-> FALSE, ann |-> FALSE, min |-> FALSE]
Scope(c) == [kind |-> "scope", body |-> c]

Rejection == [kind |-> "rejection"]

NewTask == [at |-> "read", messages |-> 0, code |-> Undefined, out |-> Undefined]

\* the mutant: no catch ends the chain, whose promise rejects
Uncaught(t) == [t EXCEPT !.at = "done", !.out = Rejection]
\* .catch((err) => { logFileProgress(err, ..., 'error'); }): the chain's promise
\* resolves with undefined
Caught(t) == [t EXCEPT !.at = "done", !.out = Undefined]

\* Promise.all(promises): rejects when one of the promises has rejected
PromiseAll(outs) ==
    IF \E i \in 1..Len(outs) : outs[i] = Rejection
    THEN Rejected("uncaught") ELSE Resolved(outs)

\* lintJs
lintJs(p) ==
    IF ~options.skipLint /\ ~SkipLintRegex(p)
       /\ ~(p.base = "templates" /\ p.ext = "js" /\ ~p.min /\ ~p.query)
    THEN EslintMessages(p) ELSE 0

\* the mutant: compression is applied whatever skipComp says
MinifiesScriptAlways(skipComp, noErrors, p) == noErrors /\ ~IsMinJs(p)
\* if (!options.skipComp && isNoErrors) { if (!/\.min\.js$/gi.test(script)) ...
MinifiesScript(skipComp, noErrors, p) == ~skipComp /\ noErrors /\ ~IsMinJs(p)

ProcessScriptsStart ==
    /\ pc = "processScripts"
    /\ sTask' = [i \in 1..Len(TruthyScripts(scripts)) |-> NewTask]
    /\ isNoErrors' = TRUE
    /\ allMessages' = <<>>
    /\ pc' = "scripts"
    /\ UNCHANGED <<envVars, inVars, jsData, cssVars, tplVars, outVars>>

ScriptFile(i) == TruthyScripts(scripts)[i]

\* readFile(mpath.join(path, script), options.preprocessResources)
ScriptRead(i) ==
    /\ pc = "scripts"
    /\ sTask[i].at = "read"
    /\ sTask' = [sTask EXCEPT ![i] =
            IF Exists(ScriptFile(i))
            THEN [@ EXCEPT !.at = "lint",
                           !.code = Code(ScriptFile(i), options.preprocessResources)]
            ELSE Caught(@)]
    /\ UNCHANGED <<envVars, pc, inVars, isNoErrors, allMessages, jsData,
                   cssVars, tplVars, outVars>>

ScriptLint(i) ==
    /\ pc = "scripts"
    /\ sTask[i].at = "lint"
    /\ sTask' = [sTask EXCEPT ![i] =
            [@ EXCEPT !.at = "rewrite", !.messages = lintJs(ScriptFile(i))]]
    /\ UNCHANGED <<envVars, pc, inVars, isNoErrors, allMessages, jsData,
                   cssVars, tplVars, outVars>>

ScriptRewrite(i) ==
    /\ pc = "scripts"
    /\ sTask[i].at = "rewrite"
    /\ sTask' = [sTask EXCEPT ![i] =
            [@ EXCEPT !.at = "annotate", !.code = [@ EXCEPT !.tpl = TRUE]]]
    /\ UNCHANGED <<envVars, pc, inVars, isNoErrors, allMessages, jsData,
                   cssVars, tplVars, outVars>>

\* ngAnnotate(code, { add: true }); its errors are thrown to the chain's catch
ScriptAnnotate(i) ==
    /\ pc = "scripts"
    /\ sTask[i].at = "annotate"
    /\ IF AnnotateErrors(ScriptFile(i))
       THEN sTask' = [sTask EXCEPT ![i] = Caught(@)]
       ELSE sTask' = [sTask EXCEPT ![i] =
                [@ EXCEPT !.at = "finish", !.code = [@ EXCEPT !.ann = TRUE]]]
    /\ UNCHANGED <<envVars, pc, inVars, isNoErrors, allMessages, jsData,
                   cssVars, tplVars, outVars>>

ScriptFinish(i) ==
    /\ pc = "scripts"
    /\ sTask[i].at = "finish"
    /\ LET t == sTask[i]
           dirty == t.messages > 0
           fatal == dirty /\ ~options.noFailLint
           noErrors == isNoErrors /\ ~fatal
           code == IF MinifiesScript(options.skipComp, noErrors, ScriptFile(i))
                   THEN [t.code EXCEPT !.min = TRUE] ELSE t.code
       IN /\ allMessages' = IF dirty
                THEN Append(allMessages, [filePath |-> ScriptFile(i), messages |-> t.messages])
                ELSE allMessages
          /\ isNoErrors' = noErrors
          /\ sTask' = [sTask EXCEPT ![i] =
                IF fatal THEN Caught(@)
                ELSE [@ EXCEPT !.at = "done", !.out = Scope(code)]]
    /\ UNCHANGED <<envVars, pc, inVars, jsData, cssVars, tplVars, outVars>>

ScriptOuts == [i \in 1..Len(sTask) |-> sTask[i].out]

\* Promise.all(promises).then(jsData => prepareExtendedReport(...)
\*     .then(() => (isNoErrors ? jsData.join('\n') : Promise.reject('JS lint errors'))))
ProcessScriptsSettle ==
    /\ pc = "scripts"
    /\ \A i \in 1..Len(sTask) : sTask[i].at = "done"
    /\ jsData' = IF PromiseAll(ScriptOuts).state = "rejected" THEN PromiseAll(ScriptOuts)
                 ELSE IF isNoErrors THEN Resolved(JoinAll(ScriptOuts))
                 ELSE Rejected("JS lint errors")
    /\ pc' = "scriptsSettled"
    /\ UNCHANGED <<envVars, inVars, sTask, isNoErrors, allMessages, cssVars,
                   tplVars, outVars>>

----------------------------------------------------------------------------
(* processLinks *)

Css(p, pre) == [file |-> p, pre |-> pre, paths |-> FALSE, min |-> FALSE]

\* if (!options.skipComp) { if (!/(\.min\.css$|\.min\.css\?)/gi.test(link)) ...
MinifiesLink(skipComp, p) == ~skipComp /\ ~IsMinCss(p)

ProcessLinksStart ==
    /\ pc = "processLinks"
    /\ lTask' = [i \in 1..Len(links) |-> NewTask]
    /\ pc' = "links"
    /\ UNCHANGED <<envVars, inVars, jsVars, cssData, tplVars, outVars>>

\* readFile(mpath.join(path, link), options.preprocessResources); the exception
\* that preprocess throws in the callback of fs.readFile is caught by nobody
\* and ends the process
LinkRead(i) ==
    /\ pc = "links"
    /\ lTask[i].at = "read"
    /\ IF Exists(links[i]) /\ options.preprocessResources /\ PreprocessThrows(links[i])
       THEN /\ pc' = "uncaughtException"
            /\ UNCHANGED lTask
       ELSE /\ lTask' = [lTask EXCEPT ![i] =
                    IF Exists(links[i])
                    THEN [@ EXCEPT !.at = "rewrite",
                                   !.code = Css(links[i], options.preprocessResources)]
                    ELSE Caught(@)]
            /\ UNCHANGED pc
    /\ UNCHANGED <<envVars, inVars, jsVars, cssData, tplVars, outVars>>

\* the four path substitutions: consecutive callbacks on the chain's own value
LinkRewrite(i) ==
    /\ pc = "links"
    /\ lTask[i].at = "rewrite"
    /\ lTask' = [lTask EXCEPT ![i] =
            [@ EXCEPT !.at = "minify", !.code = [@ EXCEPT !.paths = TRUE]]]
    /\ UNCHANGED <<envVars, pc, inVars, jsVars, cssData, tplVars, outVars>>

LinkMinify(i) ==
    /\ pc = "links"
    /\ lTask[i].at = "minify"
    /\ LET t == lTask[i]
       IN lTask' = [lTask EXCEPT ![i] =
            IF MinifiesLink(options.skipComp, links[i])
            THEN IF CssnanoFails(links[i]) THEN Caught(t)
                 ELSE [t EXCEPT !.at = "done", !.out = [t.code EXCEPT !.min = TRUE]]
            ELSE [t EXCEPT !.at = "done", !.out = t.code]]
    /\ UNCHANGED <<envVars, pc, inVars, jsVars, cssData, tplVars, outVars>>

LinkOuts == [i \in 1..Len(lTask) |-> lTask[i].out]

\* Promise.all(promises).then(cssData => cssData.join('\n'))
ProcessLinksSettle ==
    /\ pc = "links"
    /\ \A i \in 1..Len(lTask) : lTask[i].at = "done"
    /\ cssData' = IF PromiseAll(LinkOuts).state = "rejected" THEN PromiseAll(LinkOuts)
                  ELSE Resolved(JoinAll(LinkOuts))
    /\ pc' = "linksSettled"
    /\ UNCHANGED <<envVars, inVars, jsVars, lTask, tplVars, outVars>>

----------------------------------------------------------------------------
(* Markup: a document is a sequence of tokens *)

Tok(t) == [t |-> t]
ScriptTag(src) == [t |-> "script", src |-> src]
LinkTag(href) == [t |-> "link", href |-> href]
NgApp(strict) == [t |-> "ngapp", strict |-> strict]
GenScript == [t |-> "gen", ref |-> "all.min.js", v |-> "time"]
GenLink == [t |-> "gen", ref |-> "all.min.css", v |-> "time"]

IsComment(k) == k.t \in {"startsrc", "endsrc", "startcss", "endcss"}

\* the mutant: every link element is taken for a stylesheet
IsAnyHref(p) == TRUE
\* /(\.css$|\.css\?)/i.test($(element).attr('href'))
IsCssHref(p) == p.ext = "css"

Srcs(tags) == [i \in 1..Len(tags) |-> tags[i].src]
Hrefs(tags) == [i \in 1..Len(tags) |-> tags[i].href]

\* getResources: scripts, links and $.html()
getResources(d) ==
    [scripts |-> Srcs(SelectSeq(d, LAMBDA k : k.t = "script")),
     links |-> Hrefs(SelectSeq(d, LAMBDA k : k.t = "link" /\ IsCssHref(k.href))),
     indexData |-> [i \in 1..Len(d) |->
                        IF d[i].t = "ngapp" THEN NgApp(TRUE) ELSE d[i]]]

Min(S) == CHOOSE x \in S : \A y \in S : x <= y
Max(S) == CHOOSE x \in S : \A y \in S : x >= y

\* the mutant: the tag is put in front of the region, which stays
ReplaceRegionKeep(d, open, close, tag) ==
    LET starts == {i \in 1..Len(d) :
                     d[i].t = open /\ \E j \in (i + 2)..Len(d) : d[j].t = close}
    IN IF starts = {} THEN d
       ELSE LET i == Min(starts)
            IN SubSeq(d, 1, i - 1) \o <<tag>> \o SubSeq(d, i, Len(d))
\* indexData.replace(/<!--open-->[^]+<!--close-->/gi, tag): the leftmost opening
\* marker that has a closing marker at least one character later, up to the last
\* closing marker (greedy); nothing is left to match after it
ReplaceRegion(d, open, close, tag) ==
    LET starts == {i \in 1..Len(d) :
                     d[i].t = open /\ \E j \in (i + 2)..Len(d) : d[j].t = close}
    IN IF starts = {} THEN d
       ELSE LET i == Min(starts)
                j == Max({k \in (i + 2)..Len(d) : d[k].t = close})
            IN SubSeq(d, 1, i - 1) \o <<tag>> \o SubSeq(d, j + 1, Len(d))

\* htmlMinify(indexData, htmlMinOpts): removeComments
htmlMinify(d) == SelectSeq(d, LAMBDA k : ~IsComment(k))

----------------------------------------------------------------------------
(* Directories *)

IndexHtml == Path("", "index", FALSE, "html", FALSE)
AllMinJs == Path("", "all", TRUE, "js", FALSE)
AllMinCss == Path("", "all", TRUE, "css", FALSE)
Artifacts == {IndexHtml, AllMinJs, AllMinCss}

TplOk == Path("tpl", "ok", FALSE, "html", FALSE)
TplDirty == Path("tpl", "dirty", FALSE, "html", FALSE)
TplWidget == Path("tpl", "widget", FALSE, "js", FALSE)
Logo == Path("img", "logo", FALSE, "png", FALSE)
Stale == Path("", "stale", FALSE, "txt", FALSE)

TemplateFiles == {TplOk, TplDirty}
\* scripts and stylesheets a template refers to
TemplateRefs(t) == IF t = TplOk THEN {TplWidget} ELSE {}
\* number of messages htmlHint.verify reports on the template
HtmlHintMessages(t) == IF t = TplDirty THEN 1 ELSE 0

NoFiles == [n \in {} |-> <<>>]
Absent == [exists |-> FALSE, files |-> NoFiles]
EmptyDir == [exists |-> TRUE, files |-> NoFiles]
Bytes(f) == <<[kind |-> "bytes", of |-> f]>>

PutFile(d, name, data) ==
    [exists |-> TRUE,
     files |-> [n \in DOMAIN d.files \cup {name} |->
                    IF n = name THEN data ELSE d.files[n]]]

RECURSIVE PutAll(_, _)
PutAll(d, S) ==
    IF S = {} THEN d
    ELSE LET f == CHOOSE x \in S : TRUE
         IN PutAll(PutFile(d, f, Bytes(f)), S \ {f})

\* glob(`${src}/**/*`, { nodir: true })
SrcTree ==
    {f \in ScriptFiles \cup LinkFiles : Exists(f)}
        \cup templates \cup {IndexHtml, Logo, TplWidget}

----------------------------------------------------------------------------
(* copyFiles *)

\* opt.test(file) for the patterns /\.js$/i, /\.css$/i, /\.html$/i
PatternTest(pat, f) == f # Undefined /\ f.ext = pat /\ ~f.query

NoCopyOpts == [hasExclude |-> FALSE, exclude |-> <<>>,
               hasInclude |-> FALSE, include |-> <<>>]
ResourceOpts == [hasExclude |-> TRUE, exclude |-> <<"js", "css", "html">>,
                 hasInclude |-> FALSE, include |-> <<>>]

IsProcessFileCfg(mopts) ==
    \/ mopts.hasExclude
    \/ ~mopts.hasInclude
    \/ (~mopts.hasExclude /\ ~mopts.hasInclude)

IsProcessFile(f, mopts) ==
    LET popts == IF mopts.hasExclude THEN mopts.exclude
                 ELSE IF mopts.hasInclude THEN mopts.include ELSE <<>>
    IN IF \E k \in 1..Len(popts) : PatternTest(popts[k], f)
       THEN ~IsProcessFileCfg(mopts) ELSE IsProcessFileCfg(mopts)

\* the files copyFiles starts a copy for
CopySet(files, mopts) ==
    {f \in files : IsProcessFile(f, mopts) /\ f \in SrcTree}

\* no call of copyFiles is looked at on its own
CopyIdle ==
    /\ cpArgs = Undefined
    /\ promises = <<>>
    /\ destFs = [dirs |-> {}, files |-> NoFiles]
    /\ allCopied = Pending

----------------------------------------------------------------------------
(* beforePrepare.build and common.processAngular *)

\* the mutant: the app is assembled in the final destination
BuildDestWww == "www"
\* common.processAngular(src, tmp)
BuildDest == "tmp"

Reject(reason) ==
    /\ pc' = "rejected"
    /\ result' = Rejected(reason)

\* the mutant: nothing is deleted
delNothing(d) == d
\* del([dest])
clean(d) == Absent
\* mkdirp(dOut): an existing directory is left as it is
mkdirp(d) == IF d.exists THEN d ELSE EmptyDir

\* common.clean(tmp)
CleanTmp ==
    /\ pc = "cleanTmp"
    /\ \/ /\ dirs' = [dirs EXCEPT !.tmp = clean(@)]
          /\ pc' = "ensureTmp"
          /\ UNCHANGED <<wPending, result>>
       \/ /\ Reject("clean tmp failed")
          /\ UNCHANGED <<wPending, dirs>>
    /\ UNCHANGED <<envVars, inVars, jsVars, cssVars, tplVars>>

\* common.ensureDirExists(tmp)
EnsureTmp ==
    /\ pc = "ensureTmp"
    /\ \/ /\ dirs' = [dirs EXCEPT !.tmp = mkdirp(@)]
          /\ pc' = "prepareTemplates"
          /\ UNCHANGED <<wPending, result>>
       \/ /\ Reject("mkdirp tmp failed")
          /\ UNCHANGED <<wPending, dirs>>
    /\ UNCHANGED <<envVars, inVars, jsVars, cssVars, tplVars>>

\* prepareTemplates: templateCache({...}) starts on the templates below src
PrepareTemplatesStart ==
    /\ pc = "prepareTemplates"
    /\ tPending' = templates
    /\ tIncluded' = {}
    /\ tNoErrors' = TRUE
    /\ pc' = "templates"
    /\ UNCHANGED <<envVars, inVars, jsVars, cssVars, templatesjs, outVars>>

\* lintHtml
lintHtml(t) ==
    IF ~options.skipLint /\ ~SkipLintRegex(t) THEN HtmlHintMessages(t) ELSE 0

\* the mutant: lint messages never make contentModifier fail
TemplateLintFatalNever(messages) == FALSE
\* if (messages.length > 0) { ... if (!options.noFailLint) {
TemplateLintFatal(messages) == messages > 0 /\ ~options.noFailLint

\* contentModifier(content, filePath).  templateCache is a library: when the
\* promise contentModifier returns rejects, it either rejects its own promise
\* or carries on with the other templates.
ContentModifier(t) ==
    /\ pc = "templates"
    /\ t \in tPending
    /\ tPending' = tPending \ {t}
    /\ IF TemplateLintFatal(lintHtml(t))
       THEN /\ tNoErrors' = FALSE
            /\ UNCHANGED <<tIncluded, dirs>>
            /\ \/ Reject("Linting failed")
               \/ UNCHANGED <<pc, result>>
       ELSE \* processTemplateResources, then preprocess
            \/ /\ dirs' = [dirs EXCEPT ![BuildDest] =
                            PutAll(@, CopySet(TemplateRefs(t), NoCopyOpts))]
               /\ tIncluded' = tIncluded \cup {t}
               /\ UNCHANGED <<tNoErrors, pc, result>>
            \/ /\ TemplateRefs(t) # {}
               /\ UNCHANGED <<tNoErrors, tIncluded, dirs>>
               /\ \/ Reject("copy failed")
                  \/ UNCHANGED <<pc, result>>
    /\ UNCHANGED <<envVars, inVars, jsVars, cssVars, templatesjs, wPending>>

\* .then(_templatesjs => prepareExtendedReport(...)
\*     .then(() => (isNoErrors ? _templatesjs : Promise.reject('HTML hint errors'))))
PrepareTemplatesSettle ==
    /\ pc = "templates"
    /\ tPending = {}
    /\ IF tNoErrors
       THEN /\ templatesjs' = [file |-> "templates.js", puts |-> tIncluded]
            /\ pc' = "readIndex"
            /\ UNCHANGED result
       ELSE /\ Reject("HTML hint errors")
            /\ UNCHANGED templatesjs
    /\ UNCHANGED <<envVars, inVars, jsVars, cssVars, tPending, tIncluded,
                   tNoErrors, wPending, dirs>>

\* readFile(index, true), then getResources(indexData)
ReadIndex ==
    /\ pc = "readIndex"
    /\ IF doc.exists
       THEN pc' = "getResources" /\ UNCHANGED result
       ELSE Reject("ENOENT")
    /\ UNCHANGED <<envVars, inVars, jsVars, cssVars, tplVars, wPending, dirs>>

GetResources ==
    /\ pc = "getResources"
    /\ IF doc.malformed
       THEN /\ Reject("parse error")
            /\ UNCHANGED inVars
       ELSE /\ scripts' = getResources(doc.body).scripts
            /\ links' = getResources(doc.body).links
            /\ indexData' = getResources(doc.body).indexData
            /\ pc' = "processScripts"
            /\ UNCHANGED result
    /\ UNCHANGED <<envVars, jsVars, cssVars, tplVars, wPending, dirs>>

\* the mutant: the next stage is started whatever became of the previous one
ThenRunsAlways(settlement) == TRUE
\* promise.then(onFulfilled): onFulfilled runs when the promise resolved
ThenRuns(settlement) == settlement.state = "resolved"

\* processScripts(...).then(jsData => { results.push(jsData); return processLinks(...) })
ScriptsThen ==
    /\ pc = "scriptsSettled"
    /\ IF ThenRuns(jsData)
       THEN pc' = "processLinks" /\ UNCHANGED result
       ELSE Reject(jsData.reason)
    /\ UNCHANGED <<envVars, inVars, jsVars, cssVars, tplVars, wPending, dirs>>

\* .then(cssData => { results.push(cssData); return processResources(path, destPath) })
LinksThen ==
    /\ pc = "linksSettled"
    /\ IF ThenRuns(cssData)
       THEN pc' = "processResources" /\ UNCHANGED result
       ELSE Reject(cssData.reason)
    /\ UNCHANGED <<envVars, inVars, jsVars, cssVars, tplVars, wPending, dirs>>

\* processResources: every copy is started; a failing copy rejects the stage
\* while the others run on
ProcessResources ==
    /\ pc = "processResources"
    /\ \/ /\ dirs' = [dirs EXCEPT ![BuildDest] =
                        PutAll(@, CopySet(SrcTree, ResourceOpts))]
          /\ pc' = "assemble"
          /\ UNCHANGED result
       \/ \E done \in SUBSET CopySet(SrcTree, ResourceOpts) :
            /\ done # CopySet(SrcTree, ResourceOpts)
            /\ dirs' = [dirs EXCEPT ![BuildDest] = PutAll(@, done)]
            /\ Reject("copy failed")
    /\ UNCHANGED <<envVars, inVars, jsVars, cssVars, tplVars, wPending>>

\* the mutant: no string counts as a failed stage
FalsyNever(str) == FALSE
\* a string is falsy when it is empty
Falsy(str) == str = <<>>

\* the mutant: the template registry is put in front of the scripts
WithTemplatesFirst(js) == <<Scope(templatesjs), NL>> \o js
\* jsData += `\n~(function(){\n${templatesjs}\n})()`
WithTemplates(js) == js \o <<NL, Scope(templatesjs)>>

AssembledIndex ==
    htmlMinify(ReplaceRegion(ReplaceRegion(indexData, "startcss", "endcss", GenLink),
                             "startsrc", "endsrc", GenScript))

ArtifactData(n) ==
    IF n = IndexHtml THEN AssembledIndex
    ELSE IF n = AllMinJs THEN WithTemplates(jsData.value)
    ELSE cssData.value

Assemble ==
    /\ pc = "assemble"
    /\ IF Falsy(jsData.value) /\ Falsy(cssData.value)
       THEN Reject("CSS and JS failed") /\ UNCHANGED wPending
       ELSE IF Falsy(jsData.value)
       THEN Reject("JS failed") /\ UNCHANGED wPending
       ELSE IF Falsy(cssData.value)
       THEN Reject("CSS failed") /\ UNCHANGED wPending
       ELSE /\ wPending' = Artifacts
            /\ pc' = "writes"
            /\ UNCHANGED result
    /\ UNCHANGED <<envVars, inVars, jsVars, cssVars, tplVars, dirs>>

\* writeFile(destPath, name, data), one of the three of Promise.all; the first
\* failure rejects the build and the other writes run on
WriteFile(n) ==
    /\ n \in wPending
    /\ wPending' = wPending \ {n}
    /\ \/ /\ dirs' = [dirs EXCEPT ![BuildDest] = PutFile(@, n, ArtifactData(n))]
          /\ pc' = IF pc = "writes" /\ wPending = {n} THEN "cleanWww" ELSE pc
          /\ UNCHANGED result
       \/ /\ UNCHANGED dirs
          /\ IF pc = "writes" THEN Reject("write failed")
             ELSE UNCHANGED <<pc, result>>
    /\ UNCHANGED <<envVars, inVars, jsVars, cssVars, tplVars>>

\* common.clean(www)
CleanWww ==
    /\ pc = "cleanWww"
    /\ \/ /\ dirs' = [dirs EXCEPT !.www = clean(@)]
          /\ pc' = "ensureWww"
          /\ UNCHANGED result
       \/ /\ Reject("clean www failed")
          /\ UNCHANGED dirs
    /\ UNCHANGED <<envVars, inVars, jsVars, cssVars, tplVars, wPending>>

\* common.ensureDirExists(www)
EnsureWww ==
    /\ pc = "ensureWww"
    /\ \/ /\ dirs' = [dirs EXCEPT !.www = mkdirp(@)]
          /\ pc' = "mv"
          /\ UNCHANGED result
       \/ /\ Reject("mkdirp www failed")
          /\ UNCHANGED dirs
    /\ UNCHANGED <<envVars, inVars, jsVars, cssVars, tplVars, wPending>>

\* common.mv(tmp, www): the library renames the directory
Mv ==
    /\ pc = "mv"
    /\ \/ /\ dirs.tmp.exists
          /\ dirs' = [tmp |-> Absent, www |-> dirs.tmp]
          /\ pc' = "cleanTmpFinal"
          /\ UNCHANGED result
       \/ /\ Reject("mv failed")
          /\ UNCHANGED dirs
    /\ UNCHANGED <<envVars, inVars, jsVars, cssVars, tplVars, wPending>>

\* common.clean(tmp), the last step of build
CleanTmpFinal ==
    /\ pc = "cleanTmpFinal"
    /\ \/ /\ dirs' = [dirs EXCEPT !.tmp = clean(@)]
          /\ pc' = "done"
          /\ result' = Resolved(<<>>)
       \/ /\ Reject("last clean tmp failed")
          /\ UNCHANGED dirs
    /\ UNCHANGED <<envVars, inVars, jsVars, cssVars, tplVars, wPending>>

----------------------------------------------------------------------------
(* A build invocation *)

Doc(body) == [exists |-> TRUE, malformed |-> FALSE, body |-> body]
ScriptTags(ss) == [i \in 1..Len(ss) |-> ScriptTag(ss[i])]
LinkTags(ls) == [i \in 1..Len(ls) |-> LinkTag(ls[i])]

\* the two marker regions side by side, each around its references
Standard(ss, ls) ==
    <<NgApp(FALSE), Tok("startcss")>> \o LinkTags(ls) \o <<Tok("endcss"), Tok("text"),
      Tok("startsrc")>> \o ScriptTags(ss) \o <<Tok("endsrc")>>
\* the references in front of empty marker regions
Outside(ss, ls) ==
    LinkTags(ls) \o <<Tok("startcss"), Tok("endcss")>> \o ScriptTags(ss)
        \o <<Tok("startsrc"), Tok("endsrc")>>
\* the script region inside the stylesheet region
Nested(ss, ls) ==
    <<Tok("startcss")>> \o LinkTags(ls) \o <<Tok("startsrc")>> \o ScriptTags(ss)
        \o <<Tok("endsrc"), Tok("endcss")>>
\* two script regions with a script between them
Twice(ss, ls) ==
    <<Tok("startcss")>> \o LinkTags(ls) \o <<Tok("endcss"), Tok("startsrc")>>
        \o ScriptTags(ss) \o <<Tok("endsrc"), ScriptTag(JsLibMin), Tok("startsrc")>>
        \o ScriptTags(ss) \o <<Tok("endsrc")>>
\* no markers at all
Unmarked(ss, ls) == LinkTags(ls) \o ScriptTags(ss)

DocScriptFiles == {JsA, JsBad, JsGone, JsDirty}
DocLinkFiles == {CssA, CssGone}

Docs ==
    {Doc(Standard(ss, ls)) : ss \in SeqsUpTo(DocScriptFiles, MaxDocScripts),
                             ls \in SeqsUpTo(DocLinkFiles, MaxDocLinks)}
    \cup {Doc(Outside(<<JsA>>, <<CssA>>)), Doc(Nested(<<JsA>>, <<CssA>>)),
          Doc(Twice(<<JsA>>, <<CssA>>)), Doc(Unmarked(<<JsA>>, <<CssA>>)),
          Doc(Standard(<<JsA>>, <<CssA, Logo>>)),
          Doc(Standard(<<Undefined, JsA, JsLibMin>>, <<CssA>>)),
          [exists |-> FALSE, malformed |-> FALSE, body |-> <<>>],
          [exists |-> TRUE, malformed |-> TRUE, body |-> <<>>]}

BuildFlags == {Flags(S) : S \in SUBSET {"p", "nf", "sl"}}

OldWww == PutAll(EmptyDir, {Stale})

\* the hook's own state while a build, a stage or the option derivation is
\* looked at alone: a build command, no marker, nothing watched
HookIdle ==
    /\ cmdLine = "phonegap build"
    /\ bowerrc = <<"www", "lib">>
    /\ marker = FALSE
    /\ marker0 = FALSE
    /\ isServing = FALSE
    /\ srcVer = [f \in {} |-> 0]
    /\ edits = 0
    /\ events = <<>>
    /\ copies = <<>>
    /\ watching = FALSE
    /\ proc = "running"
    /\ unlinks = <<>>
    /\ run = 1
    /\ firstWww = Absent
    /\ jsText = <<>>
    /\ jsOut = <<>>
    /\ CopyIdle

\* every source tree with the plain document, and every document with the
\* clean template
Init ==
    /\ raw \in BuildFlags
    /\ HookIdle
    /\ options = prepareOptions(raw)
    /\ preprocessOptions = preprocessContext(raw)
    /\ \/ /\ templates \in SUBSET TemplateFiles
          /\ doc = Doc(Standard(<<JsA>>, <<CssA>>))
          /\ dirs \in {[tmp |-> Absent, www |-> OldWww],
                       [tmp |-> OldWww, www |-> Absent]}
       \/ /\ templates = {TplOk}
          /\ doc \in Docs
          /\ dirs = [tmp |-> Absent, www |-> OldWww]
    /\ pc = "cleanTmp"
    /\ scripts = <<>>
    /\ links = <<>>
    /\ indexData = <<>>
    /\ sTask = <<>>
    /\ isNoErrors = TRUE
    /\ allMessages = <<>>
    /\ jsData = Pending
    /\ lTask = <<>>
    /\ cssData = Pending
    /\ tPending = {}
    /\ tIncluded = {}
    /\ tNoErrors = TRUE
    /\ templatesjs = Undefined
    /\ wPending = {}
    /\ www0 = dirs.www
    /\ result = Pending

Next ==
    \/ CleanTmp
    \/ EnsureTmp
    \/ PrepareTemplatesStart
    \/ \E t \in TemplateFiles : ContentModifier(t)
    \/ PrepareTemplatesSettle
    \/ ReadIndex
    \/ GetResources
    \/ ProcessScriptsStart
    \/ \E i \in 1..Len(sTask) : ScriptRead(i)
    \/ \E i \in 1..Len(sTask) : ScriptLint(i)
    \/ \E i \in 1..Len(sTask) : ScriptRewrite(i)
    \/ \E i \in 1..Len(sTask) : ScriptAnnotate(i)
    \/ \E i \in 1..Len(sTask) : ScriptFinish(i)
    \/ ProcessScriptsSettle
    \/ ScriptsThen
    \/ ProcessLinksStart
    \/ \E i \in 1..Len(lTask) : LinkRead(i)
    \/ \E i \in 1..Len(lTask) : LinkRewrite(i)
    \/ \E i \in 1..Len(lTask) : LinkMinify(i)
    \/ ProcessLinksSettle
    \/ LinksThen
    \/ ProcessResources
    \/ Assemble
    \/ \E n \in Artifacts : WriteFile(n)
    \/ CleanWww
    \/ EnsureWww
    \/ Mv
    \/ CleanTmpFinal

Spec == Init /\ [][Next]_vars

----------------------------------------------------------------------------
(* The two pipelines on their own: processScripts or processLinks called  *)
(* with any list of references, under any combination of the flags.       *)

StageFlags ==
    {Flags(S) : S \in SUBSET {"p", "sc", "nf", "sl"}}
        \cup {Flags({"prod"}), Flags({"production", "skip-comp"}),
              Flags({"skip-comp", "no-fail-lint"}), Flags({"skip-lint"}),
              Flags({"ppr"}), Flags({"p", "ppr"})}

InitStage ==
    /\ raw \in StageFlags
    /\ HookIdle
    /\ options = prepareOptions(raw)
    /\ preprocessOptions = preprocessContext(raw)
    /\ \/ /\ pc = "processScripts"
          /\ scripts \in SeqsUpTo(ScriptFiles \cup {Undefined}, MaxScripts)
          /\ links = <<>>
       \/ /\ pc = "processLinks"
          /\ scripts = <<>>
          /\ links \in SeqsUpTo(LinkFiles, MaxLinks)
    /\ sTask = <<>>
    /\ isNoErrors = TRUE
    /\ allMessages = <<>>
    /\ jsData = Pending
    /\ lTask = <<>>
    /\ cssData = Pending
    /\ templates = {}
    /\ doc = Doc(<<>>)
    /\ indexData = <<>>
    /\ tPending = {}
    /\ tIncluded = {}
    /\ tNoErrors = TRUE
    /\ templatesjs = Undefined
    /\ wPending = {}
    /\ dirs = [tmp |-> Absent, www |-> Absent]
    /\ www0 = Absent
    /\ result = Pending

\* common.init(context): preprocessOptions = prepareOptions(context.opts.options)
InitCommon ==
    /\ pc = "init"
    /\ options' = prepareOptions(raw)
    /\ preprocessOptions' = preprocessContext(raw)
    /\ pc' = "ready"
    /\ UNCHANGED <<raw, templates, doc, www0, hookVars, inVars, jsVars, cssVars,
                   tplVars, outVars>>

NextStage ==
    \/ ProcessScriptsStart
    \/ \E i \in 1..Len(sTask) : ScriptRead(i)
    \/ \E i \in 1..Len(sTask) : ScriptLint(i)
    \/ \E i \in 1..Len(sTask) : ScriptRewrite(i)
    \/ \E i \in 1..Len(sTask) : ScriptAnnotate(i)
    \/ \E i \in 1..Len(sTask) : ScriptFinish(i)
    \/ ProcessScriptsSettle
    \/ ProcessLinksStart
    \/ \E i \in 1..Len(lTask) : LinkRead(i)
    \/ \E i \in 1..Len(lTask) : LinkRewrite(i)
    \/ \E i \in 1..Len(lTask) : LinkMinify(i)
    \/ ProcessLinksSettle

SpecStage == InitStage /\ [][NextStage]_vars

----------------------------------------------------------------------------
(* prepareOptions on its own: every combination of the raw flags *)

InitOptions ==
    /\ raw \in [RawFlagNames -> BOOLEAN]
    /\ HookIdle
    /\ options = Undefined
    /\ preprocessOptions = Undefined
    /\ pc = "init"
    /\ scripts = <<>>
    /\ links = <<>>
    /\ sTask = <<>>
    /\ isNoErrors = TRUE
    /\ allMessages = <<>>
    /\ jsData = Pending
    /\ lTask = <<>>
    /\ cssData = Pending
    /\ templates = {}
    /\ doc = Doc(<<>>)
    /\ indexData = <<>>
    /\ tPending = {}
    /\ tIncluded = {}
    /\ tNoErrors = TRUE
    /\ templatesjs = Undefined
    /\ wPending = {}
    /\ dirs = [tmp |-> Absent, www |-> Absent]
    /\ www0 = Absent
    /\ result = Pending

NextOptions == InitCommon

SpecOptions == InitOptions /\ [][NextOptions]_vars

----------------------------------------------------------------------------
(* beforePrepare: module.exports, serve, watch and cleanUp *)

MaxEdits == 2

\* the command lines of the hook's callers
CmdLines == {"phonegap serve", "phonegap build", "phonegap build -w",
             "phonegap run --watch", "phonegap prepare"}

\* /\sserve/i.test(cmdLine) || /-w/i.test(cmdLine) || /-watch/i.test(cmdLine)
IsServeCmd(c) ==
    \/ c \in {"phonegap serve"}
    \/ c \in {"phonegap build -w", "phonegap run --watch"}
    \/ c \in {"phonegap run --watch"}

\* the mutant: a marker found at start makes the invocation skip serve too
SelectsServeUnlessServing(c, serving) == IsServeCmd(c) /\ ~serving
\* if (/\sserve/i.test(context.cmdLine) || ...)
SelectsServe(c, serving) == IsServeCmd(c)

\* the "directory" of .bowerrc as path segments; none when the file is
\* missing or cannot be parsed
NoBowerRc == <<>>
BowerRcs == {<<"www", "lib">>, <<"vendor">>, NoBowerRc}

\* JSON.parse(...).directory.replace(/(\/?|^)www\//g, 'src/'), or the default
BowerDirOf(rc) ==
    IF rc = NoBowerRc THEN <<BowerDir>>
    ELSE [k \in 1..Len(rc) |-> IF rc[k] = "www" /\ k < Len(rc) THEN "src" ELSE rc[k]]

\* while (bowerParts.shift() !== 'src'); ends only at a segment 'src': on the
\* emptied array shift() gives undefined for ever
ShiftLoopEnds(parts) == \E k \in 1..Len(parts) : parts[k] = "src"

\* the watched files of src
Notes == Path("", "notes", FALSE, "txt", FALSE)
Draft == Path("pages", "draft", FALSE, "txt", FALSE)
DotEnv == Path("", ".env", FALSE, "", FALSE)
WatchedFiles == {Notes, Draft, DotEnv}

\* ignored: /[\/\\]\./
IsIgnored(f) == f = DotEnv

\* the content of the file f at version v
Content(f, v) == <<[kind |-> "bytes", of |-> f, ver |-> v]>>
\* what fs.createWriteStream(to) leaves before anything is piped
Truncated == <<>>

\* glob(`${src}/**/*`, { nodir: true }), which does not match dot files
ServeGlob == {f \in DOMAIN srcVer : srcVer[f] > 0 /\ ~IsIgnored(f)}

RECURSIVE CopyAll(_, _)
CopyAll(d, S) ==
    IF S = {} THEN d
    ELSE LET f == CHOOSE x \in S : TRUE
         IN CopyAll(PutFile(d, f, Content(f, srcVer[f])), S \ {f})

\* common.init(context) and the read of the marker
Exports ==
    /\ pc = "exports"
    /\ proc = "running"
    /\ options' = prepareOptions(raw)
    /\ preprocessOptions' = preprocessContext(raw)
    /\ IF ShiftLoopEnds(BowerDirOf(bowerrc))
       THEN /\ isServing' = marker
            /\ pc' = "dispatch"
       ELSE /\ pc' = "initLoop"
            /\ UNCHANGED isServing
    /\ UNCHANGED <<run, firstWww, copyVars, jsText, jsOut, raw, templates, doc, www0, cmdLine, bowerrc, marker, marker0,
                   srcVer, edits, events, copies, watching, proc, unlinks,
                   inVars, jsVars, cssVars, tplVars, outVars>>

\* the choice between serve, build and nothing
Dispatch ==
    /\ pc = "dispatch"
    /\ proc = "running"
    /\ IF SelectsServe(cmdLine, isServing)
       THEN /\ marker' = TRUE
            /\ pc' = "serveClean"
            /\ UNCHANGED result
       ELSE IF ~isServing
       THEN /\ pc' = "cleanTmp"
            /\ UNCHANGED <<marker, result>>
       ELSE /\ pc' = "skipped"
            /\ result' = Resolved(<<>>)
            /\ UNCHANGED marker
    /\ UNCHANGED <<run, firstWww, copyVars, jsText, jsOut, raw, options, preprocessOptions,
                   templates, doc, www0, cmdLine, bowerrc, marker0,
                   isServing, srcVer, edits, events, copies, watching, proc,
                   unlinks, inVars, jsVars, cssVars, tplVars, wPending, dirs>>

\* serve: common.clean(www)
ServeClean ==
    /\ pc = "serveClean"
    /\ proc = "running"
    /\ \/ /\ dirs' = [dirs EXCEPT !.www = clean(@)]
          /\ pc' = "serveEnsure"
          /\ UNCHANGED result
       \/ /\ Reject("clean www failed")
          /\ UNCHANGED dirs
    /\ UNCHANGED <<envVars, inVars, jsVars, cssVars, tplVars, wPending>>

\* serve: common.ensureDirExists(www)
ServeEnsure ==
    /\ pc = "serveEnsure"
    /\ proc = "running"
    /\ \/ /\ dirs' = [dirs EXCEPT !.www = mkdirp(@)]
          /\ pc' = "serveCopy"
          /\ UNCHANGED result
       \/ /\ Reject("mkdirp www failed")
          /\ UNCHANGED dirs
    /\ UNCHANGED <<envVars, inVars, jsVars, cssVars, tplVars, wPending>>

\* serve: glob and common.copyFiles(files, src, www); every copy is started,
\* a failing one rejects while the others run on
ServeCopy ==
    /\ pc = "serveCopy"
    /\ proc = "running"
    /\ \/ /\ dirs' = [dirs EXCEPT !.www = CopyAll(@, ServeGlob)]
          /\ pc' = "watch"
          /\ UNCHANGED result
       \/ \E done \in SUBSET ServeGlob :
            /\ done # ServeGlob
            /\ dirs' = [dirs EXCEPT !.www = CopyAll(@, done)]
            /\ Reject("copy failed")
    /\ UNCHANGED <<envVars, inVars, jsVars, cssVars, tplVars, wPending>>

\* watch(src, www): the handlers are registered and the promise resolves; the
\* watcher itself starts on the next tick
Watch ==
    /\ pc = "watch"
    /\ proc = "running"
    /\ watching' = TRUE
    /\ pc' = "watching"
    /\ result' = Resolved(<<>>)
    /\ UNCHANGED <<run, firstWww, copyVars, jsText, jsOut, raw, options, preprocessOptions,
                   templates, doc, www0, cmdLine, bowerrc, marker,
                   marker0, isServing, srcVer, edits, events, copies, proc,
                   unlinks, inVars, jsVars, cssVars, tplVars, wPending, dirs>>

\* the environment changes a watched file once the watch loop runs; chokidar
\* hands the stabilized event of a file that is not ignored to the handler
Touch(f) ==
    /\ pc = "watching"
    /\ proc = "running"
    /\ edits < MaxEdits
    /\ edits' = edits + 1
    /\ \E kind \in IF srcVer[f] = 0 THEN {"add"} ELSE {"change", "unlink"} :
         /\ srcVer' = [srcVer EXCEPT ![f] = IF kind = "unlink" THEN 0 ELSE edits + 1]
         /\ events' = IF IsIgnored(f) THEN events
                      ELSE Append(events, [event |-> kind, path |-> f])
    /\ UNCHANGED <<run, firstWww, copyVars, jsText, jsOut, raw, options, preprocessOptions,
                   templates, doc, www0, cmdLine, bowerrc, marker,
                   marker0, isServing, copies, watching, proc, unlinks, pc,
                   inVars, jsVars, cssVars, tplVars, outVars>>

\* a copyFile promise of the watch handler
NewCopy(f) == [file |-> f, at |-> "mkdir", snap |-> 0]

\* the mutant: the handler starts no copy at all
StartedCopiesNone(f) == <<>>
\* what copyFiles([_path], src, www) starts: if (fs.existsSync(origin))
StartedCopies(f) == IF srcVer[f] > 0 THEN <<NewCopy(f)>> ELSE <<>>

\* .on('all', (event, _path) => { common.copyFiles([_path], src, www) })
OnAll ==
    /\ pc = "watching"
    /\ proc = "running"
    /\ events # <<>>
    /\ events' = Tail(events)
    /\ copies' = copies \o StartedCopies(Head(events).path)
    /\ UNCHANGED <<run, firstWww, copyVars, jsText, jsOut, raw, options, preprocessOptions,
                   templates, doc, www0, cmdLine, bowerrc, marker,
                   marker0, isServing, srcVer, edits, watching, proc, unlinks,
                   pc, inVars, jsVars, cssVars, tplVars, outVars>>

\* copyFile after ensureDirExists: fs.createWriteStream(to) creates or
\* truncates the destination, fs.createReadStream(origin) fails when the
\* origin is gone by now, and nothing handles the rejection
CopyOpen(i) ==
    /\ proc = "running"
    /\ copies[i].at = "mkdir"
    /\ LET f == copies[i].file
       IN /\ dirs' = [dirs EXCEPT !.www = PutFile(@, f, Truncated)]
          /\ copies' = [copies EXCEPT ![i] =
                          IF srcVer[f] > 0
                          THEN [@ EXCEPT !.at = "pipe", !.snap = srcVer[f]]
                          ELSE [@ EXCEPT !.at = "failed"]]
    /\ UNCHANGED <<run, firstWww, copyVars, jsText, jsOut, raw, options, preprocessOptions,
                   templates, doc, www0, cmdLine, bowerrc, marker,
                   marker0, isServing, srcVer, edits, events, watching, proc,
                   unlinks, pc, inVars, jsVars, cssVars, tplVars, wPending,
                   result>>

\* rs.pipe(ws) up to ws.on('close', resolve)
CopyClose(i) ==
    /\ proc = "running"
    /\ copies[i].at = "pipe"
    /\ dirs' = [dirs EXCEPT !.www =
                  PutFile(@, copies[i].file, Content(copies[i].file, copies[i].snap))]
    /\ copies' = [copies EXCEPT ![i].at = "done"]
    /\ UNCHANGED <<run, firstWww, copyVars, jsText, jsOut, raw, options, preprocessOptions,
                   templates, doc, www0, cmdLine, bowerrc, marker,
                   marker0, isServing, srcVer, edits, events, watching, proc,
                   unlinks, pc, inVars, jsVars, cssVars, tplVars, wPending,
                   result>>

\* the outcome of fs.unlinkSync(isServingFile) inside try/catch
Unlink(m) == IF m THEN "removed" ELSE "ENOENT"

\* the rejection of a copy the handler started: the try/catch of the handler
\* is left when copyFiles has returned its promise, and the promise gets no
\* catch.  The runtime reports the unhandled rejection, and depending on its
\* version either goes on or raises it as an uncaught exception, for which
\* watch() has registered cleanUp(true)
UnhandledRejection(i) ==
    /\ proc = "running"
    /\ copies[i].at = "failed"
    /\ copies' = [copies EXCEPT ![i].at = "unhandled"]
    /\ \/ UNCHANGED <<proc, marker, unlinks>>
       \/ /\ proc' = "uncaughtException"
          /\ marker' = FALSE
          /\ unlinks' = unlinks \o <<Unlink(marker), Unlink(FALSE)>>
    /\ UNCHANGED <<run, firstWww, copyVars, jsText, jsOut, raw, options,
                   preprocessOptions, templates, doc, www0, cmdLine, bowerrc,
                   marker0, isServing, srcVer, edits, events, watching, pc,
                   inVars, jsVars, cssVars, tplVars, outVars>>

\* the mutant: no handler for the interrupt signal
HandledEndsNoSigint == {"exit", "uncaughtException"}
\* the ways the process ends that watch() registers a handler for
HandledEnds == {"exit", "SIGINT", "uncaughtException"}
\* the ways the process ends
Ends == {"exit", "SIGINT", "uncaughtException", "SIGTERM"}

\* the calls of cleanUp for one ending: 'exit' runs cleanUp(); SIGINT and
\* uncaughtException run cleanUp(true), whose process.exit() emits 'exit'
CleanUps(how) == IF how = "exit" THEN 1 ELSE 2

\* the process ends
Terminate(how) ==
    /\ proc = "running"
    /\ proc' = how
    /\ IF watching /\ how \in HandledEnds
       THEN /\ marker' = FALSE
            /\ unlinks' = unlinks \o [k \in 1..CleanUps(how) |->
                                        IF k = 1 THEN Unlink(marker) ELSE Unlink(FALSE)]
       ELSE UNCHANGED <<marker, unlinks>>
    /\ UNCHANGED <<run, firstWww, copyVars, jsText, jsOut, raw, options, preprocessOptions,
                   templates, doc, www0, cmdLine, bowerrc, marker0,
                   isServing, srcVer, edits, events, copies, watching, pc,
                   inVars, jsVars, cssVars, tplVars, outVars>>

\* one invocation of the hook: any command line, with or without a marker
\* left behind, with or without a usable .bowerrc
InitHook ==
    /\ raw \in {NoFlags, Flags({"p"})}
    /\ options = Undefined
    /\ preprocessOptions = Undefined
    /\ cmdLine \in CmdLines
    /\ bowerrc \in BowerRcs
    /\ marker \in BOOLEAN
    /\ marker0 = marker
    /\ isServing = FALSE
    /\ srcVer = [f \in WatchedFiles |-> IF f = Draft THEN 0 ELSE 1]
    /\ edits = 0
    /\ events = <<>>
    /\ copies = <<>>
    /\ watching = FALSE
    /\ proc = "running"
    /\ unlinks = <<>>
    /\ run = 1
    /\ firstWww = Absent
    /\ jsText = <<>>
    /\ jsOut = <<>>
    /\ CopyIdle
    /\ templates = {TplOk}
    /\ doc = Doc(Standard(<<JsA>>, <<CssA>>))
    /\ dirs \in {[tmp |-> Absent, www |-> OldWww], [tmp |-> Absent, www |-> Absent]}
    /\ www0 = dirs.www
    /\ pc = "exports"
    /\ scripts = <<>>
    /\ links = <<>>
    /\ indexData = <<>>
    /\ sTask = <<>>
    /\ isNoErrors = TRUE
    /\ allMessages = <<>>
    /\ jsData = Pending
    /\ lTask = <<>>
    /\ cssData = Pending
    /\ tPending = {}
    /\ tIncluded = {}
    /\ tNoErrors = TRUE
    /\ templatesjs = Undefined
    /\ wPending = {}
    /\ result = Pending

NextHook ==
    \/ Exports
    \/ Dispatch
    \/ ServeClean
    \/ ServeEnsure
    \/ ServeCopy
    \/ Watch
    \/ \E f \in WatchedFiles : Touch(f)
    \/ OnAll
    \/ \E i \in 1..Len(copies) : CopyOpen(i)
    \/ \E i \in 1..Len(copies) : CopyClose(i)
    \/ \E i \in 1..Len(copies) : UnhandledRejection(i)
    \/ \E how \in Ends : Terminate(how)
    \/ (proc = "running" /\ Next)

SpecHook == InitHook /\ [][NextHook]_vars

----------------------------------------------------------------------------
(* The build run twice on one project *)

\* the hook is called again with the same options on the unchanged source
\* tree: the file system and the module's options are what the first build
\* left, the promise chains and their locals are new
Rerun ==
    /\ pc = "done"
    /\ run = 1
    /\ run' = 2
    /\ firstWww' = dirs.www
    /\ options' = prepareOptions(raw)
    /\ preprocessOptions' = preprocessContext(raw)
    /\ pc' = "cleanTmp"
    /\ result' = Pending
    /\ scripts' = <<>> /\ links' = <<>> /\ indexData' = <<>>
    /\ sTask' = <<>> /\ isNoErrors' = TRUE /\ allMessages' = <<>>
    /\ jsData' = Pending
    /\ lTask' = <<>> /\ cssData' = Pending
    /\ tPending' = {} /\ tIncluded' = {} /\ tNoErrors' = TRUE
    /\ templatesjs' = Undefined
    /\ UNCHANGED <<raw, templates, doc, www0, cmdLine, bowerrc, marker, marker0,
                   isServing, srcVer, edits, events, copies, watching, proc,
                   unlinks, jsText, jsOut, copyVars, wPending, dirs>>

TwiceDocs ==
    {Doc(Standard(ss, <<CssA, CssGone>>)) :
        ss \in {<<JsA, JsDirty>>, <<JsDirty, JsA>>, <<JsGone, JsA>>, <<JsA, JsBad>>}}

InitTwice ==
    /\ raw \in BuildFlags
    /\ options = prepareOptions(raw)
    /\ preprocessOptions = preprocessContext(raw)
    /\ HookIdle
    /\ templates \in {{TplOk}, {TplOk, TplDirty}}
    /\ doc \in TwiceDocs
    /\ dirs \in {[tmp |-> Absent, www |-> OldWww], [tmp |-> OldWww, www |-> Absent]}
    /\ www0 = dirs.www
    /\ pc = "cleanTmp"
    /\ scripts = <<>>
    /\ links = <<>>
    /\ indexData = <<>>
    /\ sTask = <<>>
    /\ isNoErrors = TRUE
    /\ allMessages = <<>>
    /\ jsData = Pending
    /\ lTask = <<>>
    /\ cssData = Pending
    /\ tPending = {}
    /\ tIncluded = {}
    /\ tNoErrors = TRUE
    /\ templatesjs = Undefined
    /\ wPending = {}
    /\ result = Pending

NextTwice == Next \/ Rerun

SpecTwice == InitTwice /\ [][NextTwice]_vars

----------------------------------------------------------------------------
(* The templateUrl replacement of processScripts on the text of a script *)

MaxCode == 5

\* the characters of a script: the word templateUrl, ':', a blank, a newline,
\* ',' and any other character
Chars == {"templateUrl", ":", " ", "nl", ",", "x"}
\* \s
Ws == {" ", "nl"}
\* the mutant: the expression also ends at a blank
ExprStopsAtBlank == {"nl", ",", " "}
\* the complement of [^\n,]
ExprStops == {"nl", ","}

\* the first position from i on that \s* does not take
SkipWs(s, i) == Min({k \in i..Len(s) + 1 : k = Len(s) + 1 \/ s[k] \notin Ws})

\* the position of the colon of (templateUrl)[\s]*: for the word at i, or 0
ColonOf(s, i) ==
    LET a == SkipWs(s, i + 1)
    IN IF a <= Len(s) /\ s[a] = ":" THEN a ELSE 0

\* where ([^\n,]+) starts after the colon at a, or 0: [\s]* gives back what
\* it took until one character for the group is found
ExprStartOf(s, a) ==
    LET w == SkipWs(s, a + 1)
        starts == {k \in a + 1..w : k <= Len(s) /\ s[k] \notin ExprStops}
    IN IF starts = {} THEN 0 ELSE Max(starts)

\* the last position of the group that starts at k
ExprEndOf(s, k) ==
    Max({e \in k..Len(s) : \A j \in k..e : s[j] \notin ExprStops})

\* the match of the pattern at i, or none
MatchAt(s, i) ==
    IF s[i] # "templateUrl" \/ ColonOf(s, i) = 0 \/ ExprStartOf(s, ColonOf(s, i)) = 0
    THEN [found |-> FALSE]
    ELSE LET k == ExprStartOf(s, ColonOf(s, i))
         IN [found |-> TRUE, from |-> i, at |-> k, end |-> ExprEndOf(s, k)]

\* 'templateProvider:function($templateCache){return $templateCache.get($2)}'
\* for the match m; from and at keep the offsets of the match and of $2
Provider(s, m) ==
    [kind |-> "templateProvider", expr |-> SubSeq(s, m.at, m.end),
     from |-> m.from, at |-> m.at]

\* a character the replacement leaves where it is
Char(c) == [kind |-> "char", c |-> c]

RECURSIVE ReplaceFrom(_, _)
\* String.prototype.replace with a global pattern, from position i on
ReplaceFrom(s, i) ==
    IF i > Len(s) THEN <<>>
    ELSE IF MatchAt(s, i).found
         THEN <<Provider(s, MatchAt(s, i))>> \o ReplaceFrom(s, MatchAt(s, i).end + 1)
         ELSE <<Char(s[i])>> \o ReplaceFrom(s, i + 1)

\* d.code.replace(/(templateUrl)[\s]*:[\s]*([^\n,]+)/g, '...')
templateUrlRewrite(s) == ReplaceFrom(s, 1)

\* the second step of a script's chain, on the text
RewriteText ==
    /\ pc = "rewrite"
    /\ jsOut' = templateUrlRewrite(jsText)
    /\ pc' = "annotate"
    /\ UNCHANGED <<raw, options, preprocessOptions, templates, doc, www0, cmdLine,
                   bowerrc, marker, marker0, isServing, srcVer, edits, events, copies,
                   watching, proc, unlinks, run, firstWww, copyVars, jsText, inVars, jsVars, cssVars,
                   tplVars, outVars>>

InitRewrite ==
    /\ raw = NoFlags
    /\ options = prepareOptions(raw)
    /\ preprocessOptions = preprocessContext(raw)
    /\ cmdLine = "phonegap build"
    /\ bowerrc = <<"www", "lib">>
    /\ marker = FALSE
    /\ marker0 = FALSE
    /\ isServing = FALSE
    /\ srcVer = [f \in {} |-> 0]
    /\ edits = 0
    /\ events = <<>>
    /\ copies = <<>>
    /\ watching = FALSE
    /\ proc = "running"
    /\ unlinks = <<>>
    /\ run = 1
    /\ firstWww = Absent
    /\ jsText \in SeqsUpTo(Chars, MaxCode)
    /\ jsOut = <<>>
    /\ CopyIdle
    /\ pc = "rewrite"
    /\ scripts = <<>>
    /\ links = <<>>
    /\ sTask = <<>>
    /\ isNoErrors = TRUE
    /\ allMessages = <<>>
    /\ jsData = Pending
    /\ lTask = <<>>
    /\ cssData = Pending
    /\ templates = {}
    /\ doc = Doc(<<>>)
    /\ indexData = <<>>
    /\ tPending = {}
    /\ tIncluded = {}
    /\ tNoErrors = TRUE
    /\ templatesjs = Undefined
    /\ wPending = {}
    /\ dirs = [tmp |-> Absent, www |-> Absent]
    /\ www0 = Absent
    /\ result = Pending

NextRewrite == RewriteText

SpecRewrite == InitRewrite /\ [][NextRewrite]_vars

----------------------------------------------------------------------------
(* copyFiles on its own: any list of references, any filter *)

MaxFiles == 2

\* a reference of the list: where its text starts (with the source root's text
\* followed by '/', with that text in other letter case, with that text followed
\* by more of a sibling directory's name, or with none of these: a reference
\* relative to the root), the directories that follow, and the file name
Ref(start, dir, base, ext, query) ==
    [start |-> start, dir |-> dir, base |-> base, min |-> FALSE, ext |-> ext,
     query |-> query]

Starts == {"root", "ROOT", "sibling", "relative"}

RefNames ==
    {<<<<"js">>, "a", "js">>, <<<<"css">>, "a", "css">>, <<<<"img">>, "logo", "png">>,
     <<<<"img">>, "icon", "png">>, <<<<"tpl">>, "ok", "html">>,
     <<<<>>, "favicon", "ico">>, <<<<"img">>, "gone", "png">>,
     <<<<"img">>, "icons", "">>}

Refs ==
    {Ref(st, n[1], n[2], n[3], FALSE) : st \in {"root", "relative"}, n \in RefNames}
        \cup {Ref("relative", <<"css">>, "a", "css", TRUE),
              Ref("ROOT", <<"img">>, "logo", "png", FALSE),
              Ref("sibling", <<"img">>, "logo", "png", FALSE),
              Ref("root", <<"img", "flags">>, "es", "png", FALSE)}

\* a file below a root: its directories and its name
File(dir, base, ext) == [dir |-> dir, base |-> base, ext |-> ext]

\* what exists below the source root; img/icons is a directory
SrcFs ==
    {File(<<"js">>, "a", "js"), File(<<"css">>, "a", "css"),
     File(<<"img">>, "logo", "png"), File(<<"img">>, "icon", "png"),
     File(<<"tpl">>, "ok", "html"), File(<<>>, "favicon", "ico"),
     File(<<"img">>, "icons", ""), File(<<"img", "flags">>, "es", "png")}
\* what fs.createReadStream cannot read: a directory
Unreadable == {File(<<"img">>, "icons", "")}

\* the filters of the callers, an include list, both lists, an empty list
CopyOpts ==
    {NoCopyOpts, ResourceOpts,
     [hasExclude |-> FALSE, exclude |-> <<>>, hasInclude |-> TRUE, include |-> <<"png", "ico">>],
     [hasExclude |-> TRUE, exclude |-> <<"png">>, hasInclude |-> TRUE, include |-> <<"png", "js">>],
     [hasExclude |-> TRUE, exclude |-> <<>>, hasInclude |-> FALSE, include |-> <<>>]}

\* file.replace(pathReplace, '').split('/') with pathReplace = /^<path>\/?/gi:
\* the root's text is taken off the front in any letter case, whatever follows it
Stripped(f) ==
    IF f.start \in {"root", "ROOT", "relative"} THEN f.dir
    ELSE <<"-old">> \o f.dir

\* fileParts, after fileName = fileParts.pop() and join('/')
fileParts(f) == Stripped(f)
\* mpath.join(path, fileParts, fileName)
origin(f) == File(fileParts(f), f.base, IF f.query THEN "css?v=1" ELSE f.ext)
\* mpath.join(dest, fileParts, fileName)
to(f) == origin(f)

\* the mutant: every file of the list gets a copy, whatever the filter says
IsProcessedAlways(f, mopts) == f # Undefined
\* if (isProcessFile && file)
IsProcessed(f, mopts) == IsProcessFile(f, mopts) /\ f # Undefined

\* the mutant: the origin is not looked for
OriginExistsAlways(f) == TRUE
\* fs.existsSync(origin)
OriginExists(f) == origin(f) \in SrcFs

\* a copyFile chain: ensureDirExists, then the two streams
NewCopyFile(k, f) ==
    [k |-> k, fileParts |-> fileParts(f), origin |-> origin(f), to |-> to(f),
     at |-> "ensureDirExists"]

RECURSIVE Started(_, _, _)
\* files.forEach: the chains are pushed in the order of the list
Started(files, mopts, k) ==
    IF k > Len(files) THEN <<>>
    ELSE (IF IsProcessed(files[k], mopts) /\ OriginExists(files[k])
          THEN <<NewCopyFile(k, files[k])>> ELSE <<>>)
         \o Started(files, mopts, k + 1)

\* copyFiles(files, path, dest, opts) up to its return
CopyFilesCall ==
    /\ pc = "copyFiles"
    /\ promises' = Started(cpArgs.files, cpArgs.opts, 1)
    /\ pc' = "copying"
    /\ UNCHANGED <<raw, options, preprocessOptions, templates, doc, www0, cmdLine,
                   bowerrc, marker, marker0, isServing, srcVer, edits, events, copies,
                   watching, proc, unlinks, run, firstWww, jsText, jsOut, cpArgs,
                   destFs, allCopied, inVars, jsVars, cssVars, tplVars, outVars>>

\* the directory dir and the directories above it
Prefixes(dir) == {SubSeq(dir, 1, n) : n \in 0..Len(dir)}

\* the mutant: making a directory that is there already is an error
MkdirExclusive(dir, made) == dir \notin made
\* mkdirp(dOut, cb): an existing directory is no error
MkdirSucceeds(dir, made) == TRUE

\* ensureDirExists(mpath.join(dest, fileParts)) of the k-th chain
EnsureDirExists(i) ==
    /\ pc = "copying"
    /\ promises[i].at = "ensureDirExists"
    /\ IF cpArgs.destWritable /\ MkdirSucceeds(promises[i].fileParts, destFs.dirs)
       THEN /\ destFs' = [destFs EXCEPT !.dirs = @ \cup Prefixes(promises[i].fileParts)]
            /\ promises' = [promises EXCEPT ![i].at = "streams"]
       ELSE /\ promises' = [promises EXCEPT ![i].at = "failed"]
            /\ UNCHANGED destFs
    /\ UNCHANGED <<raw, options, preprocessOptions, templates, doc, www0, cmdLine,
                   bowerrc, marker, marker0, isServing, srcVer, edits, events, copies,
                   watching, proc, unlinks, run, firstWww, jsText, jsOut, cpArgs,
                   allCopied, pc, inVars, jsVars, cssVars, tplVars, outVars>>

\* the two streams of a chain: the write stream creates the destination, a
\* read error rejects the chain, 'close' of the write stream resolves it
CopyStreams(i) ==
    /\ pc = "copying"
    /\ promises[i].at = "streams"
    /\ IF promises[i].origin \in Unreadable
       THEN /\ destFs' = [destFs EXCEPT !.files = PutFile(destFs, promises[i].to, <<>>).files]
            /\ promises' = [promises EXCEPT ![i].at = "failed"]
       ELSE /\ destFs' = [destFs EXCEPT !.files =
                            PutFile(destFs, promises[i].to, Bytes(promises[i].origin)).files]
            /\ promises' = [promises EXCEPT ![i].at = "done"]
    /\ UNCHANGED <<raw, options, preprocessOptions, templates, doc, www0, cmdLine,
                   bowerrc, marker, marker0, isServing, srcVer, edits, events, copies,
                   watching, proc, unlinks, run, firstWww, jsText, jsOut, cpArgs,
                   allCopied, pc, inVars, jsVars, cssVars, tplVars, outVars>>

\* Promise.all(promises) settles: resolved once every chain has resolved,
\* rejected once one chain has rejected
CopySettle ==
    /\ pc = "copying"
    /\ allCopied = Pending
    /\ \/ /\ \A i \in 1..Len(promises) : promises[i].at = "done"
          /\ allCopied' = Resolved(<<>>)
       \/ /\ \E i \in 1..Len(promises) : promises[i].at = "failed"
          /\ allCopied' = Rejected("copy failed")
    /\ UNCHANGED <<raw, options, preprocessOptions, templates, doc, www0, cmdLine,
                   bowerrc, marker, marker0, isServing, srcVer, edits, events, copies,
                   watching, proc, unlinks, run, firstWww, jsText, jsOut, cpArgs,
                   promises, destFs, pc, inVars, jsVars, cssVars, tplVars, outVars>>

InitCopy ==
    /\ raw = NoFlags
    /\ options = prepareOptions(raw)
    /\ preprocessOptions = preprocessContext(raw)
    /\ cmdLine = "phonegap build"
    /\ bowerrc = <<"www", "lib">>
    /\ marker = FALSE
    /\ marker0 = FALSE
    /\ isServing = FALSE
    /\ srcVer = [f \in {} |-> 0]
    /\ edits = 0
    /\ events = <<>>
    /\ copies = <<>>
    /\ watching = FALSE
    /\ proc = "running"
    /\ unlinks = <<>>
    /\ run = 1
    /\ firstWww = Absent
    /\ jsText = <<>>
    /\ jsOut = <<>>
    /\ cpArgs \in [files : SeqsUpTo(Refs \cup {Undefined}, MaxFiles), opts : CopyOpts,
                   destWritable : BOOLEAN]
    /\ promises = <<>>
    /\ destFs = [dirs |-> {<<>>}, files |-> NoFiles]
    /\ allCopied = Pending
    /\ pc = "copyFiles"
    /\ scripts = <<>>
    /\ links = <<>>
    /\ sTask = <<>>
    /\ isNoErrors = TRUE
    /\ allMessages = <<>>
    /\ jsData = Pending
    /\ lTask = <<>>
    /\ cssData = Pending
    /\ templates = {}
    /\ doc = Doc(<<>>)
    /\ indexData = <<>>
    /\ tPending = {}
    /\ tIncluded = {}
    /\ tNoErrors = TRUE
    /\ templatesjs = Undefined
    /\ wPending = {}
    /\ dirs = [tmp |-> Absent, www |-> Absent]
    /\ www0 = Absent
    /\ result = Pending

NextCopy ==
    \/ CopyFilesCall
    \/ \E i \in 1..Len(promises) : EnsureDirExists(i)
    \/ \E i \in 1..Len(promises) : CopyStreams(i)
    \/ CopySettle

SpecCopy == InitCopy /\ [][NextCopy]_vars

----------------------------------------------------------------------------
(* Properties *)

ProductionSet == raw["p"] \/ raw["prod"] \/ raw["production"]
SkipCompSet == raw["sc"] \/ raw["skip-comp"]

RECURSIVE Split(_)
\* the segments of a string between its newlines
Split(str) ==
    LET nls == {i \in 1..Len(str) : str[i] = NL}
    IN IF nls = {} THEN <<str>>
       ELSE <<SubSeq(str, 1, Min(nls) - 1)>>
                \o Split(SubSeq(str, Min(nls) + 1, Len(str)))

\* what a settled chain contributes to the bundle
Contribution(out) == IF out = Undefined THEN <<>> ELSE <<out>>

ScriptBundleInOrder ==
    jsData.state = "resolved" =>
        LET refs == TruthyScripts(scripts)
            segs == Split(jsData.value)
        IN IF refs = <<>> THEN jsData.value = <<>>
           ELSE /\ Len(segs) = Len(refs)
                /\ \A i \in 1..Len(refs) :
                    /\ segs[i] = Contribution(sTask[i].out)
                    /\ sTask[i].out = Undefined
                        <=> (~Exists(refs[i]) \/ AnnotateErrors(refs[i]))
                    /\ sTask[i].out # Undefined =>
                        /\ sTask[i].out.kind = "scope"
                        /\ sTask[i].out.body.file = refs[i]

StyleBundleInOrder ==
    cssData.state = "resolved" =>
        LET segs == Split(cssData.value)
        IN IF links = <<>> THEN cssData.value = <<>>
           ELSE /\ Len(segs) = Len(links)
                /\ \A i \in 1..Len(links) :
                    /\ segs[i] = Contribution(lTask[i].out)
                    /\ lTask[i].out # Undefined => lTask[i].out.file = links[i]

\* C1: whatever the order in which the per-file chains advance, the script
\* bundle is the per-script outputs joined by newline in reference order and
\* the style bundle the per-stylesheet outputs joined by newline in reference
\* order; a failed file keeps its position with an empty contribution.
C1_BundlesKeepReferenceOrder == ScriptBundleInOrder /\ StyleBundleInOrder

\* a failed file in front of a processed one
C1_Witness ==
    /\ jsData.state = "resolved"
    /\ Len(sTask) = 2
    /\ sTask[1].out = Undefined
    /\ sTask[2].out # Undefined
    /\ jsData.value = <<NL, sTask[2].out>>

NothingMinified ==
    /\ \A p \in ScriptFiles : ~MinifiesScript(options.skipComp, TRUE, p)
    /\ \A p \in LinkFiles : ~MinifiesLink(options.skipComp, p)
EligibleMinified ==
    /\ \A p \in ScriptFiles : ~IsMinJs(p) => MinifiesScript(options.skipComp, TRUE, p)
    /\ \A p \in LinkFiles : ~IsMinCss(p) => MinifiesLink(options.skipComp, p)

\* C7 as stated: in both modes an explicit skip flag makes skipComp true and
\* nothing is minified.
C7_SkipFlagAlwaysWins ==
    (pc = "ready" /\ SkipCompSet) => (options.skipComp /\ NothingMinified)

\* C7 amended: with production set an explicit skip flag makes skipComp true and
\* nothing is minified; with production not set the flag is inverted: setting it
\* makes skipComp false and every script and stylesheet not named as minified is
\* minified.
C7_SkipFlagPerMode ==
    (pc = "ready" /\ SkipCompSet) =>
        IF ProductionSet THEN options.skipComp /\ NothingMinified
        ELSE ~options.skipComp /\ EligibleMinified

C7_Witness == pc = "ready" /\ raw["skip-comp"] /\ ~raw["sc"] /\ ~ProductionSet

\* C8: a script or stylesheet under the bower directory, or one whose name
\* says it is minified already, is never minified.
C8_VendoredAndMinifiedSkipped ==
    /\ \A i \in 1..Len(sTask) :
        (sTask[i].out # Undefined
            /\ (ScriptFile(i).dir = BowerDir \/ IsMinJs(ScriptFile(i))))
        => ~sTask[i].out.body.min
    /\ \A i \in 1..Len(lTask) :
        (lTask[i].out # Undefined /\ (links[i].dir = BowerDir \/ IsMinCss(links[i])))
        => ~lTask[i].out.min

\* the rejections of the stages between the first clean of tmp and its
\* publication
StageFailures ==
    {"mkdirp tmp failed", "Linting failed", "HTML hint errors", "copy failed",
     "ENOENT", "parse error", "JS lint errors", "uncaught", "CSS and JS failed",
     "JS failed", "CSS failed", "write failed"}

Published(d) == Artifacts \cap DOMAIN d.files

\* C2: when a stage between the first clean of tmp and the publication fails,
\* the build is rejected with www as it was found; and www never holds a part
\* of the assembled artifacts: it holds all three or none.
C2_NoPartialPublish ==
    /\ (result.state = "rejected" /\ result.reason \in StageFailures)
        => dirs.www = www0
    /\ Published(dirs.www) \in {{}, Artifacts}
    /\ pc \in {"cleanWww", "ensureWww", "mv"} => Published(dirs.tmp) = Artifacts

\* one artifact failed to be written, another is in tmp, www is untouched
C2_Witness ==
    /\ result.state = "rejected"
    /\ result.reason = "write failed"
    /\ Published(dirs.tmp) # {}
    /\ dirs.www = www0
    /\ www0.exists

LaterStages ==
    {"readIndex", "getResources", "processScripts", "scripts", "scriptsSettled",
     "processLinks", "links", "linksSettled", "processResources", "assemble",
     "writes", "cleanWww", "ensureWww", "mv", "cleanTmpFinal", "done"}

TemplateLintFails ==
    \E t \in templates : lintHtml(t) > 0 /\ ~options.noFailLint

\* C3: when a template has HTML-lint messages and noFailLint is not set, the
\* template stage rejects: no later stage is ever entered, nothing of them has
\* run, www is as it was found, and the build ends rejected.
C3_TemplateLintStopsBuild ==
    TemplateLintFails =>
        /\ pc \notin LaterStages
        /\ templatesjs = Undefined
        /\ scripts = <<>> /\ sTask = <<>> /\ lTask = <<>> /\ wPending = {}
        /\ jsData = Pending /\ cssData = Pending
        /\ dirs.www = www0
        /\ result.state # "resolved"
        /\ (pc = "templates" /\ tPending = {}) => ~tNoErrors

C3_Witness ==
    /\ TemplateLintFails
    /\ result = Rejected("HTML hint errors")
    /\ tIncluded # {}

\* C4: a build in which a referenced script failed annotation never ends as a
\* success.
C4_AnnotateErrorFailsBuild ==
    result.state = "resolved" =>
        \A i \in 1..Len(sTask) : ~AnnotateErrors(ScriptFile(i))

ScriptValid(p) ==
    Exists(p) /\ ~AnnotateErrors(p) /\ ~(lintJs(p) > 0 /\ ~options.noFailLint)

MissingScript == \E i \in 1..Len(sTask) : ~Exists(ScriptFile(i))
OthersValid ==
    \A i \in 1..Len(sTask) : Exists(ScriptFile(i)) => ScriptValid(ScriptFile(i))

\* C5 as stated: with a missing script and every other script valid, the build
\* is never rejected for its scripts.
C5_MissingScriptNeverFatal ==
    (MissingScript /\ OthersValid /\ result.state = "rejected") =>
        result.reason \notin {"JS failed", "JS lint errors", "uncaught"}

\* C5 amended: the read error of a missing script is caught for that file only:
\* it contributes nothing, every other script is processed and bundled in its
\* place, the build is never rejected for its scripts provided the missing
\* script is not the only referenced one, and the build settles (it is rejected
\* with 'JS failed' when the missing script is the only one).
C5_MissingScriptCaught ==
    MissingScript =>
        /\ \A i \in 1..Len(sTask) :
            ~Exists(ScriptFile(i)) =>
                /\ sTask[i].at \in {"read", "done"}
                /\ sTask[i].out = Undefined
        /\ jsData.state # "pending" => jsData.state = "resolved"
                \/ jsData.reason = "JS lint errors"
        /\ (jsData.state = "resolved" /\ OthersValid) =>
            \A i \in 1..Len(sTask) :
                Exists(ScriptFile(i)) =>
                    /\ sTask[i].out # Undefined
                    /\ Split(jsData.value)[i] = <<sTask[i].out>>
        /\ (OthersValid /\ Len(sTask) > 1 /\ result.state = "rejected") =>
            result.reason \notin {"JS failed", "JS lint errors", "uncaught"}
        /\ (Len(sTask) = 1 /\ jsData.state = "resolved") =>
            /\ Falsy(jsData.value)
            /\ pc \notin {"writes", "cleanWww", "ensureWww", "mv", "cleanTmpFinal", "done"}
        /\ result.state = "pending" => ENABLED Next

\* the build succeeded with a missing script in front of a bundled one
C5_Witness ==
    /\ pc = "done"
    /\ Len(sTask) = 2
    /\ ~Exists(ScriptFile(1))
    /\ dirs.www.files[AllMinJs][1] = NL
    /\ dirs.www.files[AllMinJs][2] = sTask[2].out

Count(d, k) == Cardinality({i \in 1..Len(d) : d[i] = k})
Places(d, t) == {i \in 1..Len(d) : d[i].t = t}

HasPair(d, open, close) ==
    \E i \in Places(d, open) : \E j \in Places(d, close) : i < j

\* the tags between the first opening and the last closing marker
Between(d, open, close) ==
    {d[k] : k \in {k \in 1..Len(d) :
        /\ d[k].t \in {"script", "link"}
        /\ \E i \in Places(d, open) : \E j \in Places(d, close) : i < k /\ k < j}}

WrittenIndex == dirs.www.files[IndexHtml]

OneTagPerRegion ==
    /\ Count(WrittenIndex, GenScript) = 1
    /\ Count(WrittenIndex, GenLink) = 1
    /\ \A k \in Between(doc.body, "startsrc", "endsrc")
            \cup Between(doc.body, "startcss", "endcss") :
        Count(WrittenIndex, k) = 0

\* C9 as stated: after a successful build of a document with a pair of script
\* markers and a pair of stylesheet markers, index.html holds one generated
\* script tag and one generated stylesheet link and none of the tags that were
\* between the markers.
C9_MarkersReplaced ==
    (pc = "done" /\ HasPair(doc.body, "startsrc", "endsrc")
        /\ HasPair(doc.body, "startcss", "endcss"))
    => OneTagPerRegion

\* one pair of markers of each kind, something between the two markers of each
\* pair, and neither region reaching into the other
WellFormedRegions(d) ==
    /\ \A t \in {"startsrc", "endsrc", "startcss", "endcss"} :
        Cardinality(Places(d, t)) = 1
    /\ LET a == Min(Places(d, "startcss"))
           b == Min(Places(d, "endcss"))
           c == Min(Places(d, "startsrc"))
           e == Min(Places(d, "endsrc"))
       IN a + 1 < b /\ c + 1 < e /\ (b < c \/ e < a)

\* the document with each region replaced by its tag, position by position
ExpectedIndex(d) ==
    LET a == Min(Places(d, "startcss"))
        b == Min(Places(d, "endcss"))
        c == Min(Places(d, "startsrc"))
        e == Min(Places(d, "endsrc"))
        Piece(i) ==
            IF i = a THEN <<GenLink>>
            ELSE IF i = c THEN <<GenScript>>
            ELSE IF (a < i /\ i <= b) \/ (c < i /\ i <= e) THEN <<>>
            ELSE IF d[i].t = "ngapp" THEN <<NgApp(TRUE)>>
            ELSE <<d[i]>>
        F[i \in 0..Len(d)] == IF i = 0 THEN <<>> ELSE F[i - 1] \o Piece(i)
    IN F[Len(d)]

\* C9 amended: after a successful build of a document with exactly one pair of
\* script markers and one pair of stylesheet markers, each pair with something
\* between its markers and the two regions not overlapping, index.html holds
\* one generated script tag and one generated stylesheet link, each in the
\* place of its region, and none of the tags that were between the markers.
C9_WellFormedMarkersReplaced ==
    (pc = "done" /\ WellFormedRegions(doc.body)) =>
        /\ OneTagPerRegion
        /\ WrittenIndex = ExpectedIndex(doc.body)

C9_Witness ==
    /\ pc = "done"
    /\ WellFormedRegions(doc.body)
    /\ Len(scripts) = 2
    /\ Count(WrittenIndex, GenScript) = 1

AllScriptsValid == \A i \in 1..Len(sTask) : ScriptValid(ScriptFile(i))
Scopes(str) == SelectSeq(str, LAMBDA x : x.kind = "scope")
WrittenJs == dirs.www.files[AllMinJs]

\* A scope wrapping the processed code of the script p.
IsScriptScope(s, p) == "pre" \in DOMAIN s.body /\ s.body.file = p
\* The scope wrapping the template registry.
IsTemplateScope(s) == "puts" \in DOMAIN s.body /\ s = Scope(templatesjs)

\* C10: after a successful build in which every referenced script is valid,
\* all.min.js holds one scope per script, in reference order, and then one
\* more scope, the last item of the file, holding the template registry.
C10_ScopesThenTemplates ==
    (pc = "done" /\ AllScriptsValid) =>
        LET n == Len(TruthyScripts(scripts))
            sc == Scopes(WrittenJs)
        IN /\ Len(sc) = n + 1
           /\ \A i \in 1..n : IsScriptScope(sc[i], TruthyScripts(scripts)[i])
           /\ IsTemplateScope(sc[n + 1])
           /\ IsTemplateScope(WrittenJs[Len(WrittenJs)])

C10_Witness ==
    /\ pc = "done"
    /\ AllScriptsValid
    /\ Len(TruthyScripts(scripts)) = 2
    /\ TruthyScripts(scripts)[1] # TruthyScripts(scripts)[2]

----------------------------------------------------------------------------
(* The hook: serve, build or nothing *)

ServeFailures == {"clean www failed", "mkdirp www failed", "copy failed"}
ServePositions == {"serveClean", "serveEnsure", "serveCopy", "watch", "watching",
                   "rejected"}
\* the destination as a fresh copy of the source leaves it
FreshCopy == CopyAll(EmptyDir, ServeGlob)
ServeStarted == pc = "watching" /\ edits = 0 /\ copies = <<>>

\* C11: with a serve command line the invocation goes through serve whether
\* or not the marker was there: the destination is wiped, recreated and, when
\* startup completes, holds exactly a copy of every source file the glob
\* gives, nothing of its former content; only a failing wipe, mkdir or copy
\* stops the startup.
C11_StaleMarkerNeverBlocksServe ==
    (IsServeCmd(cmdLine) /\ pc \notin {"exports", "initLoop", "dispatch"}) =>
        /\ pc \in ServePositions
        /\ marker \/ proc # "running"
        /\ pc = "serveEnsure" => dirs.www = Absent
        /\ pc = "serveCopy" => dirs.www = EmptyDir
        /\ ServeStarted => (dirs.www = FreshCopy /\ result = Resolved(<<>>))
        /\ pc = "rejected" => result.reason \in ServeFailures

C11_Witness ==
    /\ IsServeCmd(cmdLine)
    /\ marker0
    /\ www0 = OldWww
    /\ ServeStarted
    /\ Stale \notin DOMAIN dirs.www.files
    /\ Notes \in DOMAIN dirs.www.files

BuildPositions ==
    {"cleanTmp", "ensureTmp", "prepareTemplates", "templates", "readIndex",
     "getResources", "processScripts", "scripts", "scriptsSettled",
     "processLinks", "links", "linksSettled", "processResources", "assemble",
     "writes", "cleanWww", "ensureWww", "mv", "cleanTmpFinal", "done", "rejected"}

\* what the dispatch does with a command line that does not select serve
DispatchAsDescribed ==
    IF marker0
    THEN /\ pc = "skipped"
         /\ result = Resolved(<<>>)
         /\ dirs = [tmp |-> Absent, www |-> www0]
    ELSE pc \in BuildPositions

\* C12: with a command line that does not select serve, once module.exports
\* has gone through common.init the invocation is either resolved with tmp
\* and www untouched (marker present) or in the build (marker absent); it is
\* nowhere else, in particular not stuck before the dispatch.
C12_MarkerSkipsBuild ==
    (~IsServeCmd(cmdLine) /\ pc \notin {"exports", "dispatch"}) => DispatchAsDescribed

\* the same with a .bowerrc whose directory lies below www or src
DispatchWithUsableBowerRc ==
    (~IsServeCmd(cmdLine) /\ pc \notin {"exports", "dispatch"}
        /\ ShiftLoopEnds(BowerDirOf(bowerrc))) => DispatchAsDescribed

----------------------------------------------------------------------------
(* The watch loop *)

Mirrored == {f \in WatchedFiles : ~IsIgnored(f)}
InFlight == {i \in 1..Len(copies) : copies[i].at \in {"mkdir", "pipe"}}
\* every event handled, every started copy finished
Quiet == pc = "watching" /\ events = <<>> /\ InFlight = {}
CopiesOf(f) == {i \in 1..Len(copies) : copies[i].file = f}
WwwHas(f, data) == f \in DOMAIN dirs.www.files /\ dirs.www.files[f] = data

\* C13 as stated: once every event has been handled and every copy is over,
\* each watched file is at the destination what it is in the source: present
\* with the same content, or absent when it was removed.
C13_EveryChangeMirrored ==
    Quiet => \A f \in Mirrored :
                IF srcVer[f] > 0 THEN WwwHas(f, Content(f, srcVer[f]))
                ELSE f \notin DOMAIN dirs.www.files

\* the handler takes the next event
Handles(e) == events # <<>> /\ e = Head(events) /\ events' = Tail(events)
\* the destination files other than f are left as they are
OnlyTouches(f) ==
    /\ DOMAIN dirs'.www.files \subseteq DOMAIN dirs.www.files \cup {f}
    /\ \A g \in DOMAIN dirs.www.files \ {f} :
         g \in DOMAIN dirs'.www.files /\ dirs'.www.files[g] = dirs.www.files[g]

\* C13, amended: the handler of an event starts a copy of the event's file,
\* and of no other, when the file exists by then, and starts nothing when it
\* has been removed, so the destination keeps the removed file; a copy reads
\* the file as it is when the copy opens it, touches the destination of that
\* file only and leaves there what it read; a file changed once since the
\* start, with its copy over, is at the destination what it is in the source.
C13_ChangedFileCopied ==
    /\ [][\A e \in {[event |-> k, path |-> f] :
                        k \in {"add", "change", "unlink"}, f \in Mirrored} :
            Handles(e) =>
                /\ dirs' = dirs
                /\ copies' = IF srcVer[e.path] > 0
                             THEN Append(copies, NewCopy(e.path)) ELSE copies]_vars
    /\ [][\A i \in 1..Len(copies) :
            (pc = "watching" /\ Len(copies') = Len(copies) /\ copies'[i] # copies[i]) =>
                /\ OnlyTouches(copies[i].file)
                /\ copies'[i].at = "pipe" => copies'[i].snap = srcVer[copies[i].file]
                /\ copies'[i].at = "done" =>
                      dirs'.www.files[copies[i].file]
                          = Content(copies[i].file, copies[i].snap)]_vars
    /\ [](\A f \in Mirrored :
            (Quiet /\ Cardinality(CopiesOf(f)) = 1 /\ srcVer[f] > 0
                /\ \A i \in CopiesOf(f) : copies[i].snap = srcVer[f])
                => WwwHas(f, Content(f, srcVer[f])))

\* a file created while the loop runs has reached the destination, and a
\* removed one is still there
C13_Witness ==
    /\ Quiet
    /\ srcVer[Draft] > 0
    /\ WwwHas(Draft, Content(Draft, srcVer[Draft]))
    /\ srcVer[Notes] = 0
    /\ Notes \in DOMAIN dirs.www.files

----------------------------------------------------------------------------
(* Two builds of one project *)

\* the templates registered by the last scope of all.min.js
RegistryOf(d) == d.files[AllMinJs][Len(d.files[AllMinJs])].body.puts
\* no template was left out because the copy of one of its resources failed
SameFaults == RegistryOf(dirs.www) = templates /\ RegistryOf(firstWww) = templates

\* C14: the second build of an unchanged project with the same options
\* leaves in www exactly what the first one left (index.html, all.min.js,
\* all.min.css and the copied resources), whatever the order in which the
\* per-file operations of either build completed and whatever the first
\* build, or an earlier one, left in tmp and www; the files of the project
\* are taken to be as readable in one build as in the other.
C14_RebuildIdentical ==
    (run = 2 /\ pc = "done" /\ SameFaults) =>
        (dirs.www = firstWww /\ dirs.tmp = Absent)

C14_Witness ==
    /\ run = 2
    /\ pc = "done"
    /\ Len(sTask) = 2
    /\ Artifacts \subseteq DOMAIN dirs.www.files
    /\ SameFaults
    /\ dirs.www = firstWww

----------------------------------------------------------------------------
(* The templateUrl replacement *)

Rewritten == pc = "annotate" /\ jsText # <<>>
Providers == SelectSeq(jsOut, LAMBDA x : x.kind = "templateProvider")
LastOf(p) == p.at + Len(p.expr) - 1
Covered == {j \in 1..Len(jsText) :
               \E n \in 1..Len(Providers) :
                   Providers[n].from <= j /\ j <= LastOf(Providers[n])}
AllBlank(s, lo, hi) == \A j \in lo..hi : s[j] \in {" ", "nl"}

\* the text has `templateUrl`, blanks, ':', blanks and one character of an
\* expression from position i on
Occurrence(s, i) ==
    /\ s[i] = "templateUrl"
    /\ \E a \in i + 1..Len(s) :
         /\ AllBlank(s, i + 1, a - 1)
         /\ s[a] = ":"
         /\ \E k \in a + 1..Len(s) :
              AllBlank(s, a + 1, k - 1) /\ s[k] \notin {"nl", ","}

RECURSIVE TextAt(_, _, _)
\* the characters of s at the positions of K from i on, in order
TextAt(s, K, i) ==
    IF i > Len(s) THEN <<>>
    ELSE (IF i \in K THEN <<Char(s[i])>> ELSE <<>>) \o TextAt(s, K, i + 1)

----------------------------------------------------------------------------
(* The outcome of the script stage *)

\* the linter reported violations on a referenced script
LintViolations ==
    \E i \in 1..Len(sTask) : Exists(ScriptFile(i)) /\ lintJs(ScriptFile(i)) > 0

\* C16: once every script has been processed, the script stage is rejected
\* if the linter reported violations on a referenced script while noFailLint
\* is not set, and otherwise resolved with the per-script outputs joined by
\* newline in reference order.
C16_LintFailureRejectsStage ==
    pc = "scriptsSettled" =>
        IF LintViolations /\ ~options.noFailLint
        THEN jsData.state = "rejected"
        ELSE jsData.state = "resolved" /\ ScriptBundleInOrder

\* the same for scripts that ngAnnotate accepts
LintOutcomeOfAnnotatedScripts ==
    (pc = "scriptsSettled"
        /\ \A i \in 1..Len(sTask) : ~(lintJs(ScriptFile(i)) > 0 /\ AnnotateErrors(ScriptFile(i))))
    => IF LintViolations /\ ~options.noFailLint
       THEN jsData = Rejected("JS lint errors")
       ELSE jsData.state = "resolved" /\ ScriptBundleInOrder

----------------------------------------------------------------------------
(* ASSEMBLE *)

\* a stage failed: it came to ASSEMBLE with the empty string
JsFailed == jsData.value = <<>>
CssFailed == cssData.value = <<>>

\* C17: at ASSEMBLE the build is rejected with 'CSS and JS failed' when both
\* stages failed, with 'JS failed' or 'CSS failed' when one of them did, and
\* only when neither did are the three artifacts handed to writeFile; an
\* artifact is in the temporary directory only if both stages produced output.
C17_AssembleDecides ==
    /\ [][pc = "assemble" =>
            /\ (JsFailed /\ CssFailed) =>
                  (result' = Rejected("CSS and JS failed") /\ wPending' = {})
            /\ (JsFailed /\ ~CssFailed) =>
                  (result' = Rejected("JS failed") /\ wPending' = {})
            /\ (~JsFailed /\ CssFailed) =>
                  (result' = Rejected("CSS failed") /\ wPending' = {})
            /\ (~JsFailed /\ ~CssFailed) =>
                  (result' = Pending /\ wPending' = Artifacts)]_vars
    /\ []((wPending # {} \/ Artifacts \cap DOMAIN dirs.tmp.files # {}) =>
            (pc \notin {"assemble"} /\ ~JsFailed /\ ~CssFailed))

\* both stages failed on a document that refers to a script and a stylesheet
C17_Witness ==
    /\ result = Rejected("CSS and JS failed")
    /\ scripts = <<JsGone>>
    /\ links = <<CssGone>>
    /\ Artifacts \cap DOMAIN dirs.tmp.files = {}

----------------------------------------------------------------------------
(* The three stages after entry extraction *)

ScriptStagePositions == {"processScripts", "scripts", "scriptsSettled"}
StyleStagePositions == {"processLinks", "links", "linksSettled"}
StyleStageStarted == lTask # <<>> \/ cssData # Pending
ResourcesCopied == Logo \in DOMAIN dirs.tmp.files

----------------------------------------------------------------------------
(* The order of a build *)

StageOrder ==
    <<"cleanTmp", "ensureTmp", "prepareTemplates", "templates", "readIndex",
      "getResources", "processScripts", "scripts", "scriptsSettled",
      "processLinks", "links", "linksSettled", "processResources", "assemble",
      "writes", "cleanWww", "ensureWww", "mv", "cleanTmpFinal", "done">>
StageOf(p) == CHOOSE k \in 1..Len(StageOrder) : StageOrder[k] = p
Building == pc \in {StageOrder[k] : k \in 1..Len(StageOrder)}

\* what ASSEMBLE writes and what the resource copy copies
AssembledAndCopied == Artifacts \cup CopySet(SrcTree, ResourceOpts)
\* the resources of the registered templates, copied while the registry is built
TemplateResources == UNION {CopySet(TemplateRefs(t), NoCopyOpts) : t \in tIncluded}

\* every stage after the previous one, with the previous one's work done
BuildInOrder ==
    /\ [][pc' # pc =>
            \/ pc' = "rejected"
            \/ /\ Building
               /\ StageOf(pc) < Len(StageOrder)
               /\ pc' = StageOrder[StageOf(pc) + 1]]_vars
    /\ [](Building =>
            /\ pc = "ensureTmp" => ~dirs.tmp.exists
            /\ pc = "prepareTemplates" => dirs.tmp = EmptyDir
            /\ StageOf(pc) <= StageOf("cleanWww") => dirs.www = www0
            /\ pc = "cleanWww" => (wPending = {} /\ Artifacts \subseteq DOMAIN dirs.tmp.files)
            /\ pc = "ensureWww" => ~dirs.www.exists
            /\ pc = "mv" => dirs.www = EmptyDir
            /\ pc \in {"cleanTmpFinal", "done"} => dirs.www.exists
            /\ pc = "done" => ~dirs.tmp.exists)

\* C19 as stated: the stages of a successful build follow one another in the
\* order given, and at the end tmp is gone and www holds exactly the three
\* artifacts and the files of the resource copy.
C19_OrderAndExactContent ==
    /\ BuildInOrder
    /\ [](pc = "done" => DOMAIN dirs.www.files = AssembledAndCopied)

\* C19, amended: the stages of a successful build follow one another in the
\* order given, and at the end tmp is gone and www holds exactly the three
\* artifacts, the files of the resource copy and the resources that the
\* template stage copied for the templates it registered.
C19_OrderAndContent ==
    /\ BuildInOrder
    /\ [](pc = "done" =>
            /\ DOMAIN dirs.www.files = AssembledAndCopied \cup TemplateResources
            /\ \A n \in Artifacts : dirs.www.files[n] = ArtifactData(n)
            /\ \A f \in DOMAIN dirs.www.files \ Artifacts : dirs.www.files[f] = Bytes(f))

\* a build is over whose template referred to a script of its own
C19_Witness ==
    /\ pc = "done"
    /\ www0 = OldWww
    /\ TplWidget \in DOMAIN dirs.www.files
    /\ Logo \in DOMAIN dirs.www.files
    /\ Stale \notin DOMAIN dirs.www.files

----------------------------------------------------------------------------
(* The end of a serve session *)

\* C20: when the process ends by a normal exit, an interrupt signal or an
\* uncaught exception after watch() has registered its handlers, the marker
\* file is gone; cleanUp has run once (exit) or twice (the signal's or the
\* exception's handler, then the exit handler), and its second run, finding
\* no marker, fails silently.
C20_MarkerRemovedAtEnd ==
    (watching /\ proc \in {"exit", "SIGINT", "uncaughtException"}) =>
        /\ ~marker
        /\ unlinks = IF proc = "exit" THEN <<"removed">> ELSE <<"removed", "ENOENT">>

\* the session was interrupted: cleanUp ran twice
C20_Witness ==
    /\ watching
    /\ proc = "SIGINT"
    /\ ~marker
    /\ unlinks = <<"removed", "ENOENT">>

----------------------------------------------------------------------------
(* The filter and the path mapping of copyFiles *)

\* the file of the list matches one of the patterns
MatchesAny(f, pats) == \E k \in 1..Len(pats) : PatternTest(pats[k], f)
\* copyFiles started a copy for the k-th file of the list
CopyStartedFor(k) == \E i \in 1..Len(promises) : promises[i].k = k
\* the reference names a file below the source root, by its full name or
\* relative to the root
BelowRoot(f) == f.start \in {"root", "relative"}
\* the position of the file relative to the source root
RelativePosition(f) == File(f.dir, f.base, f.ext)
\* the files of the list that are there to be copied
Copyable(k) ==
    /\ cpArgs.files[k] # Undefined
    /\ BelowRoot(cpArgs.files[k])
    /\ ~cpArgs.files[k].query
    /\ RelativePosition(cpArgs.files[k]) \in SrcFs

\* C21: for every file of the list that exists below the source root, copyFiles starts a copy iff
\* the file matches none of the exclude patterns when exclude is given, iff it
\* matches at least one include pattern when only include is given, and always
\* when neither is given; a finished copy of a file below the source root is at
\* the destination under the position the file has below the source root, and
\* holds the file's bytes.
C21_FilterAndMapping ==
    pc = "copying" =>
        /\ \A k \in 1..Len(cpArgs.files) : Copyable(k) =>
              LET f == cpArgs.files[k]
                  o == cpArgs.opts
              IN CopyStartedFor(k) <=>
                    IF o.hasExclude THEN ~MatchesAny(f, o.exclude)
                    ELSE IF o.hasInclude THEN MatchesAny(f, o.include)
                    ELSE TRUE
        /\ \A i \in 1..Len(promises) :
              LET f == cpArgs.files[promises[i].k]
              IN (promises[i].at = "done" /\ BelowRoot(f)) =>
                    /\ RelativePosition(f) \in DOMAIN destFs.files
                    /\ destFs.files[RelativePosition(f)] = Bytes(RelativePosition(f))
                    /\ promises[i].fileParts \in destFs.dirs

\* under an include list one file of two was copied, into a directory two
\* levels below the destination root, and the other was filtered out
C21_Witness ==
    /\ pc = "copying"
    /\ cpArgs.opts.hasInclude /\ ~cpArgs.opts.hasExclude
    /\ cpArgs.files = <<Ref("root", <<"js">>, "a", "js", FALSE),
                        Ref("root", <<"img", "flags">>, "es", "png", FALSE)>>
    /\ Len(promises) = 1
    /\ promises[1].at = "done"
    /\ File(<<"img", "flags">>, "es", "png") \in DOMAIN destFs.files

----------------------------------------------------------------------------
(* The copies of one copyFiles call *)

\* the entries of the list that pass the filter and are at their origin
ToBeCopied ==
    {k \in 1..Len(cpArgs.files) :
        /\ cpArgs.files[k] # Undefined
        /\ IsProcessFile(cpArgs.files[k], cpArgs.opts)
        /\ origin(cpArgs.files[k]) \in SrcFs}

AllStartedTogether ==
    /\ [](pc = "copying" => {promises[i].k : i \in 1..Len(promises)} = ToBeCopied)
    /\ [][pc = "copyFiles" =>
            \A i \in 1..Len(promises') : promises'[i].at = "ensureDirExists"]_vars

AggregateFollowsCopies ==
    /\ allCopied.state = "resolved" =>
          \A i \in 1..Len(promises) : promises[i].at = "done"
    /\ allCopied.state = "rejected" =>
          \E i \in 1..Len(promises) : promises[i].at = "failed"
    /\ (allCopied = Pending /\ \E i \in 1..Len(promises) : promises[i].at = "failed")
          => ENABLED (CopySettle /\ allCopied'.state = "rejected")

\* a chain fails only on an origin that cannot be read or below a destination
\* that cannot be written
OnlyFaultsFail ==
    \A i \in 1..Len(promises) :
        promises[i].at = "failed" =>
            (promises[i].origin \in Unreadable \/ ~cpArgs.destWritable)

\* C22: copyFiles starts the copy of every file that passes the filter and is
\* at its origin before any of the copies advances, and starts none for a file
\* that is not there; the aggregate promise resolves only when every copy has
\* resolved, rejects only when a copy has failed and can reject as soon as one
\* has, whatever the others are at; no copy fails because the directory it
\* needs is there already.
C22_ConcurrentCopies ==
    /\ AllStartedTogether
    /\ [](AggregateFollowsCopies /\ OnlyFaultsFail)

\* two files of one directory and a file that is not there: both copies are
\* done and the aggregate promise has resolved
C22_Witness ==
    /\ cpArgs.files = <<Ref("root", <<"img">>, "logo", "png", FALSE),
                        Ref("root", <<"img">>, "icon", "png", FALSE)>>
    /\ Len(promises) = 2
    /\ promises[1].fileParts = promises[2].fileParts
    /\ promises[1].at = "done" /\ promises[2].at = "done"
    /\ allCopied.state = "resolved"

----------------------------------------------------------------------------
(* The references getResources extracts *)

ScriptElements(d) == SelectSeq(d, LAMBDA k : k.t = "script")
LinkElements(d) == SelectSeq(d, LAMBDA k : k.t = "link")
StylesheetLinks(d) == SelectSeq(LinkElements(d), LAMBDA k : k.href.ext = "css")
WithSrc(d) == SelectSeq(ScriptElements(d), LAMBDA k : k.src # Undefined)

\* the step of the build that calls getResources on a document cheerio parses
Extracts == pc = "getResources" /\ pc' = "processScripts"

LinksExtracted ==
    [][Extracts =>
        /\ Len(links') = Len(StylesheetLinks(doc.body))
        /\ \A i \in 1..Len(links') : links'[i] = StylesheetLinks(doc.body)[i].href]_vars

MalformedRejects ==
    [][(pc = "getResources" /\ doc.malformed) =>
        (pc' = "rejected" /\ result'.state = "rejected" /\ UNCHANGED inVars)]_vars

\* C23 as stated: the scripts returned are exactly the src values of the
\* script elements that have a src attribute, in document order, the links
\* exactly the href values of the link elements whose href has a stylesheet
\* extension, in document order; when the parser fails nothing is returned.
C23_OnlyScriptsWithSrc ==
    /\ [][Extracts =>
            /\ Len(scripts') = Len(WithSrc(doc.body))
            /\ \A i \in 1..Len(scripts') : scripts'[i] = WithSrc(doc.body)[i].src]_vars
    /\ LinksExtracted
    /\ MalformedRejects

\* C23, amended: the scripts returned have one entry per script element, in
\* document order: its src value, or undefined when it has no src attribute, so
\* that the entries that are not undefined are exactly the src values of the
\* script elements with a src attribute, in document order; the links are
\* exactly the href values of the link elements whose href has a stylesheet
\* extension, in document order; when the parser fails the extraction rejects
\* and nothing is returned.
C23_OneEntryPerScript ==
    /\ [][Extracts =>
            /\ Len(scripts') = Len(ScriptElements(doc.body))
            /\ \A i \in 1..Len(scripts') : scripts'[i] = ScriptElements(doc.body)[i].src
            /\ Len(TruthyScripts(scripts')) = Len(WithSrc(doc.body))
            /\ \A i \in 1..Len(WithSrc(doc.body)) :
                  TruthyScripts(scripts')[i] = WithSrc(doc.body)[i].src]_vars
    /\ LinksExtracted
    /\ MalformedRejects

\* a document whose first script element has no src attribute went through
\* getResources
C23_Witness ==
    /\ pc = "processScripts"
    /\ Len(scripts) = 3
    /\ scripts[1] = Undefined
    /\ scripts[2] = JsA
    /\ links = <<CssA>>

----------------------------------------------------------------------------
(* The preprocessing context *)

DebugSet == raw["d"] \/ raw["debug"]
AngularDebugSet == raw["ad"] \/ raw["angular-debug"]

\* the symbol is true when its flag and production are both set or both not
\* set, and undefined otherwise
ActiveIff(symbol, flag) ==
    /\ symbol = JsTrue <=> ((flag /\ ProductionSet) \/ (~flag /\ ~ProductionSet))
    /\ symbol # JsTrue => symbol = Undefined

\* C24: for every combination of the raw flags the context that prepareOptions
\* returns has NODE_ENV 'production' when production is set and 'development'
\* otherwise, and has DEBUG and ANGULAR_DEBUG true iff the symbol's flag and
\* production are both set or both not set, and undefined in the other cases.
C24_PreprocessingContext ==
    pc = "ready" =>
        /\ preprocessOptions.context.NODE_ENV =
              (IF ProductionSet THEN "production" ELSE "development")
        /\ ActiveIff(preprocessOptions.context.DEBUG, DebugSet)
        /\ ActiveIff(preprocessOptions.context.ANGULAR_DEBUG, AngularDebugSet)

\* a production call with the long debug flag and no angular debug flag
C24_Witness ==
    /\ pc = "ready"
    /\ raw["prod"] /\ raw["debug"] /\ ~raw["d"] /\ ~AngularDebugSet
    /\ preprocessOptions.context =
          [NODE_ENV |-> "production", DEBUG |-> JsTrue, ANGULAR_DEBUG |-> Undefined]

----------------------------------------------------------------------------
(* Errors on single stylesheets *)

\* reading or transforming the stylesheet fails
StylesheetFails(p) ==
    \/ ~Exists(p)
    \/ MinifiesLink(options.skipComp, p) /\ CssnanoFails(p)
    \/ options.preprocessResources /\ PreprocessThrows(p)

StyleStageTolerant ==
    /\ cssData.state # "rejected"
    /\ cssData.state = "resolved" =>
          \A i \in 1..Len(links) :
              IF StylesheetFails(links[i]) THEN lTask[i].out = Undefined
              ELSE lTask[i].out # Undefined /\ lTask[i].out.file = links[i]

\* C25: an error while reading or transforming one stylesheet never leaves the
\* chain of that stylesheet: the chain ends with an empty contribution, the
\* other stylesheets are processed and contribute their output, and the style
\* stage does not reject.
C25_StylesheetErrorsCaught ==
    pc # "uncaughtException" /\ StyleStageTolerant

\* the same for the errors of reading and of cssnano, the stylesheets not
\* being preprocessed
StylesheetErrorsCaughtUnlessPreprocessed ==
    ~options.preprocessResources => C25_StylesheetErrorsCaught

\* a missing stylesheet and one cssnano rejects, beside a good one: the stage
\* resolved
StylesheetErrorsCaughtCase ==
    /\ cssData.state = "resolved"
    /\ \E i, j \in 1..Len(links) :
          lTask[i].out = Undefined /\ lTask[j].out # Undefined

----------------------------------------------------------------------------
(* The marker after an invocation *)

Settled == result.state \in {"resolved", "rejected"}

\* C26: once the invocation has settled, a marker that was not there before
\* it exists only if the invocation started the watch loop with its
\* termination handlers; a serve invocation whose startup rejected has left
\* no marker.
C26_MarkerOnlyWithWatchLoop ==
    (Settled /\ ~marker0 /\ marker) => watching

\* the same for the invocations that do not reject: a build, a skipped build
\* and a serve whose startup succeeded
MarkerOnlyWithWatchLoopUnlessRejected ==
    (result.state = "resolved" /\ ~marker0 /\ marker) => watching

----------------------------------------------------------------------------
(* What ASSEMBLE publishes *)

\* the stage has nothing to show: no reference, or every referenced file failed
NoScriptOutput == \A i \in 1..Len(sTask) : sTask[i].out = Undefined
NoStyleOutput == \A i \in 1..Len(lTask) : lTask[i].out = Undefined

\* ASSEMBLE has handed the artifacts to writeFile
Writes == wPending # {} \/ Artifacts \cap DOMAIN dirs.tmp.files # {}

\* C27: ASSEMBLE writes artifacts only when the script stage and the style
\* stage each have the output of at least one file: a document whose scripts
\* or stylesheets are none or have all failed is not published and its build
\* rejects, so that neither bundle is published without content.
C27_PublishedBundlesHaveContent ==
    /\ Writes => (~NoScriptOutput /\ ~NoStyleOutput)
    /\ (pc = "done" /\ doc.exists) => (~NoScriptOutput /\ ~NoStyleOutput)

\* the same with a stage counted as empty only when its bundle is the empty
\* string: no reference, or one reference whose file failed
PublishedBundlesNotEmptyString ==
    Writes => (jsData.value # <<>> /\ cssData.value # <<>>)

----------------------------------------------------------------------------
(* Bundled references and the published entry markup *)

\* the content of the file went into all.min.js or all.min.css
BundledScript(p) ==
    \E i \in 1..Len(sTask) : sTask[i].out # Undefined /\ ScriptFile(i) = p
BundledLink(p) ==
    \E i \in 1..Len(lTask) : lTask[i].out # Undefined /\ links[i] = p

\* the markup has a tag of its own for the file
RefersTo(d, p) ==
    \E i \in 1..Len(d) :
        \/ d[i].t = "script" /\ d[i].src = p
        \/ d[i].t = "link" /\ d[i].href = p

\* the token at i lies between an opening and a closing marker of the kind
InsideRegion(d, i, open, close) ==
    /\ \E a \in 1..(i - 1) : d[a].t = open
    /\ \E b \in (i + 1)..Len(d) : d[b].t = close

\* every tag of the document for the file lies in the region of its kind
OnlyInRegion(d, p) ==
    \A i \in 1..Len(d) :
        /\ (d[i].t = "script" /\ d[i].src = p) => InsideRegion(d, i, "startsrc", "endsrc")
        /\ (d[i].t = "link" /\ d[i].href = p) => InsideRegion(d, i, "startcss", "endcss")

PublishedIndex == dirs.www.files[IndexHtml]

----------------------------------------------------------------------------
(* Failures of the copies of the watch loop *)

\* the copy failed and its rejection was caught by nobody
Escaped(i) == copies[i].at \in {"failed", "unhandled"}

\* C29: no failure of a copy that the watch handler started leaves the
\* handler uncaught, and none ends the process and with it the watch loop.
C29_CopyFailuresCaught ==
    /\ [](\A i \in 1..Len(copies) : ~Escaped(i))
    /\ [][(\E i \in 1..Len(copies) : copies[i].at = "failed" /\ copies'[i].at = "unhandled")
            => proc' = "running"]_vars

\* what the handler does catch: nothing of a copy; a file that is gone when
\* its event is handled starts no copy and raises nothing
GoneFileRaisesNothing ==
    [][(pc = "watching" /\ events # <<>> /\ events' = Tail(events)
            /\ srcVer[Head(events).path] = 0)
        => (copies' = copies /\ proc' = "running")]_vars

====
